---- MODULE Spec2Model ----
(***************************************************************************)
(* Model of the review-triage workflow of pre_commit_code_review:          *)
(* scripts/interactive_review.py (report state, atomic persistence, the    *)
(* interactive loop and its patch handling) and the diff normalizer of     *)
(* scripts/postprocess_review.py.                                          *)
(*                                                                         *)
(* Text is modelled line by line.  A text is the sequence of its lines as  *)
(* Python's str.split("\n") gives them: "a\nb\n" is <<a, b, <<>> >>, the   *)
(* empty string is << <<>> >>.  A line is the sequence of its tokens; the  *)
(* first token carries the marker the code tests with startswith or a     *)
(* regular expression ("--- ", "+++ ", "@@ ", the fence), so the code's    *)
(* tests are tests on tokens.  A carriage return is a token at the end of  *)
(* a line, in the diffs given to the normalizer only.                      *)
(***************************************************************************)
EXTENDS Integers, Sequences, FiniteSets, TLC

VARIABLES
    report,     \* the review file now on disk: its index in Reports, or
                \* its text where the parser is checked on its own
    tree,       \* content of the working tree's target file
    files,      \* the store file and its sibling temporary file, by path
    pc,         \* position of the process ("stopped" when none runs)
    ret,        \* where control goes after the save_state in progress
    state,      \* main / interactive_loop: the state dictionary
    findings,   \* main / interactive_loop: the parsed findings
    index,      \* interactive_loop: the cursor
    patch,      \* interactive_loop (apply): the resolved diff
    patch_source, \* interactive_loop (apply): its provenance
    cmd         \* history of the command in progress or last completed
                \* (with two instances: the open handle of each)

vars == <<report, tree, files, pc, ret, state, findings, index, patch,
          patch_source, cmd>>

(***************************************************************************)
(* Text helpers                                                            *)
(***************************************************************************)

\* The empty string.
EmptyText == << <<>> >>

\* Tags the fence pattern of extract_patch accepts after the backticks.
FenceTags == {"diff", "patch", "suggestion"}

\* The code fence, three backquote characters.
Fence == "<fence>"

\* line.startswith(prefix), for the prefixes the code tests.
StartsWith(line, prefix) ==
    /\ line # <<>>
    /\ CASE prefix = "--- " -> line[1] = "--- "
         [] prefix = "+++ " -> line[1] = "+++ "
         [] prefix = "@@ "  -> line[1] = "@@ "
         [] prefix = "@@"   -> line[1] \in {"@@ ", "@@"}
         [] prefix = "---"  -> line[1] \in {"--- ", "---"}
         [] OTHER -> line[1] = prefix

\* A line that holds white space only (str.strip() would empty it).
IsBlank(line) == \A i \in 1..Len(line) : line[i] = " "

\* text.strip("\n"): leading and trailing newlines removed.
RECURSIVE StripNewlines(_)
StripNewlines(text) ==
    IF Len(text) > 1 /\ text[1] = <<>> THEN StripNewlines(Tail(text))
    ELSE IF Len(text) > 1 /\ text[Len(text)] = <<>>
         THEN StripNewlines(SubSeq(text, 1, Len(text) - 1))
    ELSE text

\* line.lstrip() / line.rstrip() on the token alphabet: blanks are tokens.
RECURSIVE LStripLine(_)
LStripLine(line) ==
    IF line # <<>> /\ line[1] = " " THEN LStripLine(Tail(line)) ELSE line

RECURSIVE RStripLine(_)
RStripLine(line) ==
    IF line # <<>> /\ line[Len(line)] = " "
    THEN RStripLine(SubSeq(line, 1, Len(line) - 1)) ELSE line

\* text.strip(): white space (blank lines included) removed at both ends.
RECURSIVE StripText(_)
StripText(text) ==
    IF Len(text) > 1 /\ IsBlank(text[1]) THEN StripText(Tail(text))
    ELSE IF Len(text) > 1 /\ IsBlank(text[Len(text)])
         THEN StripText(SubSeq(text, 1, Len(text) - 1))
    ELSE IF Len(text) = 1 THEN << RStripLine(LStripLine(text[1])) >>
    ELSE <<LStripLine(text[1])>>
         \o SubSeq(text, 2, Len(text) - 1)
         \o <<RStripLine(text[Len(text)])>>

\* text.endswith("\n")
EndsWithNewline(text) == Len(text) > 1 /\ text[Len(text)] = <<>>

\* text + "\n", for a text that does not end with a newline
AddNewline(text) == Append(text, <<>>)

\* re.search("^" + prefix, text, re.MULTILINE)
HasLineWith(text, prefix) ==
    \E i \in 1..Len(text) : StartsWith(text[i], prefix)

Min(a, b) == IF a < b THEN a ELSE b
Max(a, b) == IF a > b THEN a ELSE b

\* Python's None where a text is expected (no text is the empty sequence).
None == <<>>

\* dict.get(key, default).
Get(dict, key, default) == IF key \in DOMAIN dict THEN dict[key] ELSE default

\* Python truth of an Optional[str]: neither None nor the empty string.
Truthy(text) == text # None /\ text # EmptyText

(***************************************************************************)
(* Diff extraction and validation (interactive_review.py)                  *)
(***************************************************************************)

\* The fence pattern's opening: the backquotes, an optional tag, then the
\* end of the line.
IsOpener(line) ==
    /\ line # <<>>
    /\ \/ line[Len(line)] = Fence
       \/ Len(line) >= 2 /\ line[Len(line) - 1] = Fence
                         /\ line[Len(line)] \in FenceTags

HasFence(line) == \E k \in 1..Len(line) : line[k] = Fence

\* The tokens of a line before its first fence.
BeforeFence(line) ==
    LET k == CHOOSE k \in 1..Len(line) :
                 line[k] = Fence /\ \A m \in 1..(k - 1) : line[m] # Fence
    IN SubSeq(line, 1, k - 1)

\* extract_patch(ai_output): the interior of the first fenced block.
extract_patch(ai_output) ==
    LET openers == {i \in 1..(Len(ai_output) - 1) :
                      /\ IsOpener(ai_output[i])
                      /\ \E j \in (i + 1)..Len(ai_output) : HasFence(ai_output[j])}
    IN IF openers = {} THEN None
       ELSE LET i == CHOOSE i \in openers : \A k \in openers : i <= k
                j == CHOOSE j \in (i + 1)..Len(ai_output) :
                        /\ HasFence(ai_output[j])
                        /\ \A k \in (i + 1)..(j - 1) : ~HasFence(ai_output[k])
                group == SubSeq(ai_output, i + 1, j - 1)
                           \o <<BeforeFence(ai_output[j])>>
                stripped == StripText(group)
            IN IF EndsWithNewline(stripped) THEN stripped
               ELSE AddNewline(stripped)

\* prepare_patch_for_application(patch) of interactive_review.py: the
\* validator of the workflow (it repairs nothing but the outer newlines).
prepare_patch_for_application(p) ==
    LET stripped == StripNewlines(p)
        normalized == IF EndsWithNewline(stripped) THEN stripped
                      ELSE AddNewline(stripped)
    IN IF \A i \in 1..Len(stripped) : IsBlank(stripped[i]) THEN None
       ELSE IF ~HasLineWith(normalized, "--- ") THEN None
       ELSE IF ~HasLineWith(normalized, "+++ ") THEN None
       ELSE IF ~HasLineWith(normalized, "@@ ") THEN None
       ELSE normalized

(***************************************************************************)
(* The texts the model draws its inputs from                               *)
(***************************************************************************)

TargetFile == "lib/foo.go"

OldHeader == <<"--- ", "a/", TargetFile>>
NewHeader == <<"+++ ", "b/", TargetFile>>
HunkHeader == <<"@@ ", "-1,1 +1,1 @@">>
Removal(x) == <<"-", x>>
Addition(x) == <<"+", x>>
Prose == <<"Here is the fix.">>

\* A fenced diff block without file headers: the hunk only.
BareDiffBlock ==
    << <<Fence, "diff">>, HunkHeader, Removal("a"), Addition("b"), <<Fence>> >>

\* A fenced diff block with both file headers and a hunk.
FullDiffBlock ==
    << <<Fence, "diff">>, OldHeader, NewHeader, HunkHeader,
       Removal("a"), Addition("b"), <<Fence>> >>

\* What the assistant may print (run_ai_fix returns its stripped stdout).
AiOutputs == { <<Prose>> \o FullDiffBlock, BareDiffBlock, <<Prose>> }

\* The contents the target file of the working tree may have.
FileContents == {"a", "b"}

\* Finding: the fields of a parsed finding that the workflow reads.
Finding(id, suggestion) ==
    [identifier |-> id, file |-> TargetFile, suggestion |-> suggestion]

\* The review files the environment may leave on disk: the fingerprint of
\* (path, text) and the BAD findings parse_bad_findings returns for it.
\* A suggestion holds no line that starts with "---": see parse_fields.
AllReports ==
    << [review_hash |-> "h1",
        findings |-> << Finding("id1", BareDiffBlock), Finding("id2", EmptyText) >>],
       [review_hash |-> "h2",
        findings |-> << Finding("id2", EmptyText), Finding("id3", <<Prose>>) >>],
       [review_hash |-> "h3",
        findings |-> << Finding("id3", <<Prose>>) >>],
       [review_hash |-> "h4",
        findings |-> << Finding("id1", BareDiffBlock), Finding("id1", BareDiffBlock),
                        Finding("id3", <<Prose>>) >>] >>

\* How many of the review files the environment chooses among.
NumReports == 3

Reports == SubSeq(AllReports, 1, Min(NumReports, Len(AllReports)))

(***************************************************************************)
(* The triage store (interactive_review.py)                                *)
(***************************************************************************)

\* Python's empty dictionary.
EmptyDict == [k \in {} |-> 0]

StatePath == "auto_code_review_state.json"

AbsentFile == [kind |-> "absent"]
PartialFile == [kind |-> "partial"]
JsonFile(st) == [kind |-> "json", data |-> st]

\* load_state: {} when the file is missing or does not decode.
load_state(file) == IF file.kind = "json" THEN file.data ELSE EmptyDict

\* Mutant of tmp_path: the state is written in place.
tmp_path_in_place == "auto_code_review_state.json"

\* save_state, line 229: the sibling temporary path.
tmp_path == "auto_code_review_state.tmp"

\* Mutant of replace: the rename goes the wrong way round.
replace_reversed(fs, src, dst) ==
    IF src = dst THEN fs
    ELSE [fs EXCEPT ![src] = fs[dst], ![dst] = AbsentFile]

\* Path.replace: rename src over dst.
replace(fs, src, dst) ==
    IF src = dst THEN fs
    ELSE [fs EXCEPT ![dst] = fs[src], ![src] = AbsentFile]

FreshEntry ==
    [status |-> "pending", last_ai_output |-> EmptyText,
     last_patch |-> EmptyText, last_patch_source |-> ""]

FindingIds(fs) == {fs[i].identifier : i \in 1..Len(fs)}

\* Mutant of BaseState: the entries of the other review are kept.
BaseState_keeps_entries(st, review_hash) ==
    IF "review_hash" \in DOMAIN st /\ st.review_hash = review_hash THEN st
    ELSE [review_hash |-> review_hash,
          findings |-> IF "findings" \in DOMAIN st THEN st.findings
                       ELSE EmptyDict,
          current_index |-> 0]

\* ensure_state_for_findings, lines 243-244: a state of another review
\* (or none) is replaced by an empty one.
BaseState(st, review_hash) ==
    IF "review_hash" \in DOMAIN st /\ st.review_hash = review_hash THEN st
    ELSE [review_hash |-> review_hash, findings |-> EmptyDict,
          current_index |-> 0]

\* Mutant of FilterEntries: nothing is dropped.
FilterEntries_keeps_stale(old, finding_ids) == old

\* ensure_state_for_findings, lines 246-248: entries of findings that are
\* no longer reported are dropped.
FilterEntries(old, finding_ids) ==
    [key \in DOMAIN old \cap finding_ids |-> old[key]]

\* ensure_state_for_findings, lines 250-259: setdefault of a pending entry.
WithDefaults(findings_state, finding_ids) ==
    [key \in DOMAIN findings_state \cup finding_ids |->
        IF key \in DOMAIN findings_state THEN findings_state[key]
        ELSE FreshEntry]

\* Mutant of ensure_state_for_findings: the reset branch returns at once,
\* before the entries of the findings are created.
ensure_state_returns_early(st, review_hash, fs) ==
    IF ~("review_hash" \in DOMAIN st /\ st.review_hash = review_hash)
    THEN [review_hash |-> review_hash, findings |-> EmptyDict,
          current_index |-> 0]
    ELSE LET finding_ids == {fs[i].identifier : i \in 1..Len(fs)}
             old == IF "findings" \in DOMAIN st THEN st.findings ELSE EmptyDict
         IN [key \in DOMAIN st \cup {"findings", "current_index"} |->
               IF key = "findings"
               THEN [id \in (DOMAIN old \cap finding_ids) \cup finding_ids |->
                       IF id \in DOMAIN old THEN old[id] ELSE FreshEntry]
               ELSE IF key = "current_index" /\ key \notin DOMAIN st THEN 0
               ELSE st[key]]

ensure_state_for_findings(st, review_hash, fs) ==
    LET finding_ids == FindingIds(fs)
        base == BaseState(st, review_hash)
        old == IF "findings" \in DOMAIN base THEN base.findings ELSE EmptyDict
        findings_state == WithDefaults(FilterEntries(old, finding_ids), finding_ids)
    IN [key \in DOMAIN base \cup {"findings", "current_index"} |->
          IF key = "findings" THEN findings_state
          ELSE IF key = "current_index" /\ key \notin DOMAIN base THEN 0
          ELSE base[key]]

\* Mutant of IsResolved: only an applied fix counts.
IsResolved_when_fixed(status) == status = "fixed"

\* find_first_pending_index, line 274: the statuses the scan passes over.
IsResolved(status) == status \in {"acknowledged", "fixed"}

\* find_first_pending_index, lines 272-276: the scan from position index
\* (0-based) on; len(findings) when it runs off the end.
RECURSIVE ScanPending(_, _, _)
ScanPending(fs, findings_state, i) ==
    IF i >= Len(fs) THEN Len(fs)
    ELSE LET entry == Get(findings_state, fs[i + 1].identifier, EmptyDict)
             status == Get(entry, "status", "pending")
         IN IF ~IsResolved(status) THEN i
            ELSE ScanPending(fs, findings_state, i + 1)

find_first_pending_index(fs, st) ==
    ScanPending(fs, Get(st, "findings", EmptyDict), 0)

(***************************************************************************)
(* The patch tool, as apply_patch drives it                                *)
(***************************************************************************)

\* Whether git apply accepts the diff on the tree: it names the target
\* file in both headers, has a hunk, and removes what the file holds.
GitAccepts(tr, diff) ==
    /\ \E i \in 1..Len(diff) : diff[i] = OldHeader
    /\ \E i \in 1..Len(diff) : diff[i] = NewHeader
    /\ HasLineWith(diff, "@@ ")
    /\ \A i \in 1..Len(diff) : StartsWith(diff[i], "-") => diff[i][2] = tr

\* The content of the target file after an accepted diff.
GitResult(tr, diff) ==
    LET adds == {i \in 1..Len(diff) : StartsWith(diff[i], "+")}
    IN IF adds = {} THEN tr
       ELSE diff[CHOOSE i \in adds : \A k \in adds : k <= i][2]

\* apply_patch(repo_root, patch): the diff is validated again, then piped
\* to "git apply -".  runs: whether the git executable could be started.
\* Yields the outcome, the tree afterwards and the git invocations made.
apply_patch(tr, p, runs) ==
    LET prepared == prepare_patch_for_application(p)
        ok == runs /\ GitAccepts(tr, prepared)
    IN IF ~Truthy(prepared) THEN [ok |-> FALSE, tree |-> tr, git |-> <<>>]
       ELSE [ok |-> ok,
             tree |-> IF ok THEN GitResult(tr, prepared) ELSE tr,
             git |-> << [args |-> <<"git", "apply", "-">>,
                         input |-> prepared, ok |-> ok] >>]

(***************************************************************************)
(* The report parser: parse_fields and parse_bad_findings                  *)
(*                                                                         *)
(* A heading line is <<"## ", title>>.  An assessment header is            *)
(* <<"### ", "Assessment of the change:">> followed by the characters of   *)
(* the rest of the line, one token each.  A field line is                  *)
(* <<"**", label, "**", ": ", value>>.                                     *)
(***************************************************************************)

SectionTitle == "Change-by-Change Review"
AssessmentTitle == "Assessment of the change:"

UpperLetters ==
    <<"A", "B", "C", "D", "E", "F", "G", "H", "I", "J", "K", "L", "M",
      "N", "O", "P", "Q", "R", "S", "T", "U", "V", "W", "X", "Y", "Z">>
LowerLetters ==
    <<"a", "b", "c", "d", "e", "f", "g", "h", "i", "j", "k", "l", "m",
      "n", "o", "p", "q", "r", "s", "t", "u", "v", "w", "x", "y", "z">>

\* The character class [A-Z].
IsUpper(c) == \E k \in 1..Len(UpperLetters) : UpperLetters[k] = c

\* str.upper(), character by character.
ToUpper(chars) ==
    [i \in 1..Len(chars) |->
        IF \E k \in 1..Len(LowerLetters) : LowerLetters[k] = chars[i]
        THEN UpperLetters[CHOOSE k \in 1..Len(LowerLetters) :
                              LowerLetters[k] = chars[i]]
        ELSE chars[i]]

\* [A-Z]+ at the start of chars, greedy; empty when there is no match.
RECURSIVE UpperRun(_)
UpperRun(chars) ==
    IF chars # <<>> /\ IsUpper(chars[1])
    THEN <<chars[1]>> \o UpperRun(Tail(chars))
    ELSE <<>>

\* A line at which "## Change-by-Change Review" matches.
IsSectionHeading(line) ==
    Len(line) >= 2 /\ line[1] = "## " /\ line[2] = SectionTitle

\* A line at which "### Assessment" matches.
IsAssessment(line) ==
    Len(line) >= 2 /\ line[1] = "### " /\ line[2] = AssessmentTitle

\* What follows the colon of an assessment header.
AfterColon(line) == SubSeq(line, 3, Len(line))

\* The group "grade" of the block pattern: \s* and then [A-Z]+, for a
\* header that has something other than white space after the colon.
GradeGroup(line) == UpperRun(LStripLine(AfterColon(line)))

\* canonicalize_label: the attribute a field label stands for, "" for none.
canonicalize_label(label) ==
    CASE label \in {"Title", "title", "TITLE:"} -> "title"
      [] label \in {"File", "file"} -> "file"
      [] label \in {"Function", "function"} -> "function"
      [] label \in {"Lines", "Line", "lines", "line"} -> "lines"
      [] label \in {"Details", "details"} -> "details"
      [] label \in {"Suggestion", "suggestion", "Suggestion (if 'BAD')",
                    "Suggestion (if BAD)"} -> "suggestion"
      [] label \in {"Reasoning", "reasoning"} -> "reasoning"
      [] OTHER -> ""

\* clean_value: trailing white space and one trailing backslash removed.
clean_value(line) ==
    LET cleaned == RStripLine(line)
    IN IF cleaned # <<>> /\ cleaned[Len(cleaned)] = "\\"
       THEN RStripLine(SubSeq(cleaned, 1, Len(cleaned) - 1))
       ELSE cleaned

\* remainder.lstrip(": ")
RECURSIVE LStripColon(_)
LStripColon(line) ==
    IF line # <<>> /\ line[1] \in {": ", ":", " "}
    THEN LStripColon(Tail(line)) ELSE line

\* str.splitlines() of a text without carriage returns.
SplitLines(text) ==
    IF text[Len(text)] = <<>> THEN SubSeq(text, 1, Len(text) - 1) ELSE text

\* fields.setdefault(name, []).append(value)
AppendTo(fields, name, values) ==
    [key \in DOMAIN fields \cup {name} |->
        IF key = name THEN Get(fields, name, <<>>) \o values ELSE fields[key]]

\* parse_fields, lines 137-163: what one line does to the fields so far
\* and to the current field ("" for None).
FieldStep(acc, raw_line) ==
    LET stripped == RStripLine(LStripLine(raw_line))
        closings == {k \in 2..Len(stripped) : stripped[k] = "**"}
        closing == IF closings = {} THEN 0
                   ELSE CHOOSE k \in closings : \A m \in closings : k <= m
        label == IF closing = 3 THEN stripped[2] ELSE ""
        remainder == LStripColon(SubSeq(stripped, closing + 1, Len(stripped)))
        field_name == canonicalize_label(label)
    IN IF stripped = <<>>
       THEN IF acc.current # ""
            THEN [acc EXCEPT !.fields = AppendTo(@, acc.current, << <<>> >>)]
            ELSE acc
       ELSE IF StartsWith(stripped, "---") \/ StartsWith(stripped, "### ")
       THEN [acc EXCEPT !.current = ""]
       ELSE IF StartsWith(stripped, "**") /\ closing # 0 /\ field_name # ""
       THEN [fields |-> AppendTo(acc.fields, field_name,
                           IF remainder # <<>> THEN <<clean_value(remainder)>>
                           ELSE <<>>),
             current |-> field_name]
       ELSE IF acc.current # ""
       THEN [acc EXCEPT !.fields =
                AppendTo(@, acc.current, <<clean_value(raw_line)>>)]
       ELSE acc

RECURSIVE FieldLoop(_, _)
FieldLoop(acc, lines) ==
    IF lines = <<>> THEN acc
    ELSE FieldLoop(FieldStep(acc, lines[1]), Tail(lines))

\* parse_fields(block_body): the fields, each joined with newlines and
\* stripped of outer newlines.
parse_fields(block_body) ==
    LET done == FieldLoop([fields |-> EmptyDict, current |-> ""],
                          SplitLines(block_body))
    IN [name \in DOMAIN done.fields |->
          StripNewlines(IF done.fields[name] = <<>> THEN EmptyText
                        ELSE done.fields[name])]

\* The group "section" of the section pattern: from the end of the first
\* section heading up to the next line that starts with "## ", or the end.
Section(text) ==
    LET heads == {i \in 1..Len(text) : IsSectionHeading(text[i])}
        h == CHOOSE i \in heads : \A k \in heads : i <= k
        ends == {k \in (h + 1)..Len(text) : StartsWith(text[k], "## ")}
        last == IF ends = {} THEN Len(text)
                ELSE (CHOOSE k \in ends : \A m \in ends : k <= m) - 1
    IN IF heads = {} THEN None
       ELSE <<SubSeq(text[h], 3, Len(text[h]))>> \o SubSeq(text, h + 1, last)

\* The last line of the group "body" that starts at line start: the body
\* ends before the first later line that starts with "### Assessment" or
\* "## ", or at the end of the section.
RECURSIVE BodyEnd(_, _)
BodyEnd(section, j) ==
    IF j >= Len(section) THEN Len(section)
    ELSE IF IsAssessment(section[j + 1]) \/ StartsWith(section[j + 1], "## ")
    THEN j
    ELSE BodyEnd(section, j + 1)

\* pattern.finditer(section): the matches of the block pattern, from line
\* i on.  A match needs an upper-case letter after the colon and a newline
\* after the header line; the search resumes after the body.
RECURSIVE FindBlocks(_, _)
FindBlocks(section, i) ==
    IF i > Len(section) THEN <<>>
    ELSE IF /\ IsAssessment(section[i])
            /\ GradeGroup(section[i]) # <<>>
            /\ i < Len(section)
    THEN LET j == BodyEnd(section, i + 1)
         IN << [grade |-> GradeGroup(section[i]),
                body |-> SubSeq(section, i + 1, j),
                all |-> SubSeq(section, i, j)] >>
            \o FindBlocks(section, j + 1)
    ELSE FindBlocks(section, i + 1)

\* The digest of the block's first line only.
Identifier_of_first_line(raw_block) == [sha256 |-> <<raw_block[1]>>]

\* sha256(raw_block)[:16]
Identifier(raw_block) == [sha256 |-> raw_block]

\* Lines 188-207: the finding of one match, none for another grade.
FindingsOf(match) ==
    LET grade == ToUpper(RStripLine(LStripLine(match.grade)))
        fields == parse_fields(match.body)
        raw_block == StripText(match.all)
    IN IF grade # <<"B", "A", "D">> THEN <<>>
       ELSE << [identifier |-> Identifier(raw_block),
                title |-> Get(fields, "title", EmptyText),
                file |-> Get(fields, "file", EmptyText),
                lines |-> Get(fields, "lines", EmptyText),
                suggestion |-> Get(fields, "suggestion", EmptyText),
                raw_block |-> raw_block,
                details |-> Get(fields, "details", EmptyText),
                reasoning |-> Get(fields, "reasoning", EmptyText),
                function |-> Get(fields, "function", EmptyText)] >>

RECURSIVE Collect(_)
Collect(matches) ==
    IF matches = <<>> THEN <<>>
    ELSE FindingsOf(matches[1]) \o Collect(Tail(matches))

\* parse_bad_findings(review_text)
parse_bad_findings(review_text) ==
    LET section == Section(review_text)
    IN IF section = None THEN <<>>
       ELSE Collect(FindBlocks(section, 1))

(***************************************************************************)
(* The diff normalizer of postprocess_review.py.  A path is a sequence of  *)
(* tokens as a line is: blanks, "./", directory names with their           *)
(* separator, the file name.                                               *)
(***************************************************************************)

\* The carriage return of a line that ends with CR LF.
CR == "<cr>"

\* patch.replace("\r\n", "\n"), line 156, on one line.
DropCR(line) ==
    IF line # <<>> /\ line[Len(line)] = CR
    THEN SubSeq(line, 1, Len(line) - 1) ELSE line

\* text.rstrip("\n")
RECURSIVE RStripNewlines(_)
RStripNewlines(text) ==
    IF Len(text) > 1 /\ text[Len(text)] = <<>>
    THEN RStripNewlines(SubSeq(text, 1, Len(text) - 1)) ELSE text

\* Lines 148-149: the leading "./" are dropped.
RECURSIVE DropDotSlash(_)
DropDotSlash(path) ==
    IF path # <<>> /\ path[1] = "./" THEN DropDotSlash(Tail(path)) ELSE path

\* path.replace("\\", "/") on one token.
SlashToken(token) ==
    CASE token = "src\\" -> "src/"
      [] token = ".\\" -> "./"
      [] OTHER -> token

\* sanitize_path(path), lines 144-150.
sanitize_path(path) ==
    LET stripped == RStripLine(LStripLine(path))
        cleaned == [i \in 1..Len(stripped) |-> SlashToken(stripped[i])]
    IN DropDotSlash(cleaned)

\* Line 164: no hint for None and for the empty string.
path_hint_of(file_path) ==
    IF file_path # None THEN sanitize_path(file_path) ELSE <<>>

\* Lines 167, 184 and 188: the lines written for a path hint.
DiffLine(path) == <<"diff --git ", "a/">> \o path \o <<" b/">> \o path
OldLine(path) == <<"--- ", "a/">> \o path
NewLine(path) == <<"+++ ", "b/">> \o path

\* "/dev/null" in line, lines 183 and 187: a substring test, so a path
\* that goes through a directory dev to a file null.go has it too.
MentionsDevNull(line) ==
    \E k \in 1..Len(line) :
        \/ line[k] = "/dev/null"
        \/ /\ line[k] = "dev/null.go"
           /\ k > 1
           /\ line[k - 1] \in {"a/", "b/", " b/", "src/", "old/"}

\* Lines 167-176: the first "diff --git" line is rewritten for the hint,
\* and one is put on top when there is none.
rewrite_diff_line(lines, path_hint) ==
    LET present == {i \in 1..Len(lines) :
                      StartsWith(lines[i], "diff --git ")}
    IN IF present # {}
       THEN IF path_hint # <<>>
            THEN [lines EXCEPT
                    ![CHOOSE i \in present : \A k \in present : i <= k]
                        = DiffLine(path_hint)]
            ELSE lines
       ELSE IF path_hint # <<>> THEN <<DiffLine(path_hint)>> \o lines
       ELSE lines

\* Lines 180-188: every header line that does not mention /dev/null is
\* rewritten for the hint.
rewrite_headers(prepared, path_hint) ==
    [i \in 1..Len(prepared) |->
        IF StartsWith(prepared[i], "--- ")
        THEN IF path_hint # <<>> /\ ~MentionsDevNull(prepared[i])
             THEN OldLine(path_hint) ELSE prepared[i]
        ELSE IF StartsWith(prepared[i], "+++ ")
        THEN IF path_hint # <<>> /\ ~MentionsDevNull(prepared[i])
             THEN NewLine(path_hint) ELSE prepared[i]
        ELSE prepared[i]]

\* The headers put at the top, not where the first hunk header is.
first_hunk_at_top(prepared) == 1

\* Line 197: the index of the first line that starts with "@@".
first_hunk(prepared) ==
    CHOOSE i \in 1..Len(prepared) :
        /\ StartsWith(prepared[i], "@@")
        /\ \A k \in 1..(i - 1) : ~StartsWith(prepared[k], "@@")

\* Either header counting for both.
has_header_of_either(prepared, prefix) ==
    HasLineWith(prepared, "--- ") \/ HasLineWith(prepared, "+++ ")

\* has_old and has_new, lines 178-186.
has_header(prepared, prefix) == HasLineWith(prepared, prefix)

\* prepare_patch_for_application(patch, file_path), lines 153-209.
postprocess_prepare_patch_for_application(p, file_path) ==
    LET normalized == StripNewlines([i \in 1..Len(p) |-> DropCR(p[i])])
        path_hint == path_hint_of(file_path)
        with_diff == rewrite_diff_line(normalized, path_hint)
        has_old == has_header(with_diff, "--- ")
        has_new == has_header(with_diff, "+++ ")
        rewritten == rewrite_headers(with_diff, path_hint)
        at == first_hunk(rewritten)
        prepared ==
            IF has_old \/ has_new THEN rewritten
            ELSE SubSeq(rewritten, 1, at - 1)
                    \o <<OldLine(path_hint), NewLine(path_hint)>>
                    \o SubSeq(rewritten, at, Len(rewritten))
        complete ==
            IF path_hint # <<>> /\ ~HasLineWith(prepared, "diff --git ")
            THEN <<DiffLine(path_hint)>> \o prepared ELSE prepared
    IN IF normalized = EmptyText THEN None
       ELSE IF ~HasLineWith(normalized, "@@") THEN None
       ELSE IF has_old # has_new THEN None
       ELSE IF ~has_old /\ ~has_new /\ path_hint = <<>> THEN None
       ELSE AddNewline(RStripNewlines(complete))

(***************************************************************************)
(* The workflow: main and interactive_loop                                 *)
(***************************************************************************)

\* What the command prompt accepts for each command, after strip().lower().
HelpWords == {"?", "help"}
QuitWords == {"q", "quit"}
PrevWords == {"p", "prev"}
OpenWords == {"o", "open"}
FixWords == {"f", "fix"}
ApplyWords == {"a", "apply"}
NextWords == {"n", "next", ""}
OtherWords == {"x"}

\* What the user may answer to a yes/no question, after strip().lower().
Answers == {"y", "yes", "n", ""}

\* Mutant of AcceptsGeneration: the assistant runs unless the user declines.
AcceptsGeneration_by_default(response) == response \notin {"n", "no"}

\* Line 831: the answers that start an assistant run from apply.
AcceptsGeneration(response) == response \in {"y", "yes"}

\* Mutant of AcceptsApply: the patch is applied unless the user declines.
AcceptsApply_by_default(confirm) == confirm \notin {"n", "no"}

\* Line 877: the answer that lets the patch be applied.
AcceptsApply(confirm) == confirm = "y"

\* The positions where the process waits for the user or another process.
SuspensionPoints ==
    {"prompt", "ai_fix", "gen_prompt", "ai_apply", "confirm", "git_apply"}

\* History of one command: its name, the cursor it was given at, the
\* cached patch it found, the resolution stages it went through, the
\* answers it got, what the assistant returned, the diff it displayed and
\* the git invocations it made.
Idle ==
    [name |-> "", at |-> 0, cached |-> None, tried |-> <<>>, gen |-> "",
     output |-> None, shown |-> None, answer |-> "", git |-> <<>>]

Began(name) == [Idle EXCEPT !.name = name, !.at = index]

CurrentFinding == findings[index + 1]
CurrentId == CurrentFinding.identifier
CurrentEntry == state.findings[CurrentId]

SetEntry(st, id, entry) ==
    [st EXCEPT !.findings =
        [key \in DOMAIN @ \cup {id} |-> IF key = id THEN entry ELSE @[key]]]

\* A loop that asks for a command whatever the cursor is.
AfterCommand_always_prompts(i) == "prompt"

\* The loop test of line 729 after a command: prompt again or leave.
AfterCommand(i) == IF 0 <= i /\ i < Len(findings) THEN "prompt" ELSE "exit"

NoProcess ==
    /\ pc' = "stopped"
    /\ ret' = "stopped"
    /\ state' = EmptyDict
    /\ findings' = <<>>
    /\ index' = 0
    /\ patch' = None
    /\ patch_source' = ""
    /\ cmd' = Idle

Init ==
    /\ report \in 1..Len(Reports)
    /\ tree \in FileContents
    /\ files = [path \in {StatePath, tmp_path} |-> AbsentFile]
    /\ pc = "stopped"
    /\ ret = "stopped"
    /\ state = EmptyDict
    /\ findings = <<>>
    /\ index = 0
    /\ patch = None
    /\ patch_source = ""
    /\ cmd = Idle

\* The environment replaces the review file while no process runs.
EditReport ==
    /\ pc = "stopped"
    /\ \E r \in 1..Len(Reports) : r # report /\ report' = r
    /\ UNCHANGED <<tree, files, pc, ret, state, findings, index, patch,
                   patch_source, cmd>>

\* main, lines 919-928: parse, load, reconcile, then save.
Start ==
    /\ pc = "stopped"
    /\ Reports[report].findings # <<>>
    /\ findings' = Reports[report].findings
    /\ state' = ensure_state_for_findings(load_state(files[StatePath]),
                     Reports[report].review_hash, Reports[report].findings)
    /\ pc' = "save"
    /\ ret' = "loop_init"
    /\ UNCHANGED <<report, tree, files, index, patch, patch_source, cmd>>

\* save_state, line 230: the temporary file is opened for writing.
SaveOpen ==
    /\ pc = "save"
    /\ files' = [files EXCEPT ![tmp_path] = PartialFile]
    /\ pc' = "save_write"
    /\ UNCHANGED <<report, tree, ret, state, findings, index, patch,
                   patch_source, cmd>>

\* save_state, lines 231-232: the state is written and the file closed.
SaveWrite ==
    /\ pc = "save_write"
    /\ files' = [files EXCEPT ![tmp_path] = JsonFile(state)]
    /\ pc' = "save_replace"
    /\ UNCHANGED <<report, tree, ret, state, findings, index, patch,
                   patch_source, cmd>>

\* save_state, line 233: the temporary file is renamed over the store.
SaveReplace ==
    /\ pc = "save_replace"
    /\ files' = replace(files, tmp_path, StatePath)
    /\ pc' = ret
    /\ UNCHANGED <<report, tree, ret, state, findings, index, patch,
                   patch_source, cmd>>

\* interactive_loop, lines 721-729: the initial cursor and the loop test.
LoopInit ==
    /\ pc = "loop_init"
    /\ LET i == Min(state.current_index, Len(findings))
           start == IF i >= Len(findings)
                    THEN find_first_pending_index(findings, state) ELSE i
       IN /\ index' = start
          /\ pc' = IF 0 <= start /\ start < Len(findings) THEN "prompt" ELSE "exit"
    /\ UNCHANGED <<report, tree, files, ret, state, findings, patch,
                   patch_source, cmd>>

\* Lines 899-900: the cursor is stored and saved when the loop is left.
Exit ==
    /\ pc = "exit"
    /\ state' = [state EXCEPT
                    !.current_index = Max(0, Min(index, Len(findings)))]
    /\ pc' = "save"
    /\ ret' = "done"
    /\ UNCHANGED <<report, tree, files, findings, index, patch,
                   patch_source, cmd>>

\* Mutant of previous: the cursor is not clamped.
previous_unclamped(st, i) ==
    [state |-> [st EXCEPT !.current_index = i - 1], index |-> i - 1]

\* Lines 755-756 (prev): the cursor moves back, clamped at 0.
previous(st, i) ==
    LET j == Max(0, i - 1)
    IN [state |-> [st EXCEPT !.current_index = j], index |-> j]

\* Mutant of acknowledged: the stored cursor stays behind.
acknowledged_cursor_not_stored(st, id, i) ==
    [state |-> SetEntry(st, id, [st.findings[id] EXCEPT
                                    !.status = "acknowledged"]),
     index |-> i + 1]

\* A next that advances the cursor and leaves the status as it is.
acknowledged_status_unchanged(st, id, i) ==
    [state |-> [st EXCEPT !.current_index = i + 1], index |-> i + 1]

\* Lines 890-893 (next): the finding is acknowledged, the cursor advances.
acknowledged(st, id, i) ==
    [state |-> [SetEntry(st, id, [st.findings[id] EXCEPT
                                     !.status = "acknowledged"])
                  EXCEPT !.current_index = i + 1],
     index |-> i + 1]

\* A fix that forgets the cached patch when the assistant gives nothing.
fix_entry_clears_on_failure(entry, ai_output) ==
    IF ~Truthy(ai_output)
    THEN [entry EXCEPT !.last_patch = EmptyText, !.last_patch_source = ""]
    ELSE LET p == extract_patch(ai_output)
         IN IF Truthy(p)
            THEN [entry EXCEPT !.last_ai_output = ai_output,
                               !.last_patch = p,
                               !.last_patch_source = "ai"]
            ELSE [entry EXCEPT !.last_ai_output = ai_output,
                               !.last_patch = EmptyText,
                               !.last_patch_source = ""]

\* Lines 766-776 (fix): the assistant's output and its diff are cached.
fix_entry(entry, ai_output) ==
    IF ~Truthy(ai_output) THEN entry
    ELSE LET p == extract_patch(ai_output)
         IN IF Truthy(p)
            THEN [entry EXCEPT !.last_ai_output = ai_output,
                               !.last_patch = p,
                               !.last_patch_source = "ai"]
            ELSE [entry EXCEPT !.last_ai_output = ai_output,
                               !.last_patch = EmptyText,
                               !.last_patch_source = ""]

\* A discard that drops the patch and keeps its source.
discard_patch_keeps_source(entry) == [entry EXCEPT !.last_patch = EmptyText]

\* Lines 794-795, 842-843, 852-853: the cached patch is dropped.
discard_patch(entry) ==
    [entry EXCEPT !.last_patch = EmptyText, !.last_patch_source = ""]

\* Lines 809-810, 859-860: the resolved patch is cached with its source.
cache_patch(entry, p, source) ==
    [entry EXCEPT !.last_patch = p, !.last_patch_source = source]

\* Mutant of applied: the outcome of apply_patch is not looked at.
applied_whatever_outcome(st, id, i, source, ok) ==
    [state |-> [[st EXCEPT !.findings =
                    [key \in DOMAIN @ |->
                        IF key = id
                        THEN [@[key] EXCEPT !.status = "fixed",
                                            !.last_patch_source = source]
                        ELSE @[key]]]
                  EXCEPT !.current_index = i + 1],
     index |-> i + 1]

\* Lines 880-885 (apply): the outcome of apply_patch.
applied(st, id, i, source, ok) ==
    IF ok
    THEN [state |-> [SetEntry(st, id, [st.findings[id] EXCEPT
                                          !.status = "fixed",
                                          !.last_patch_source = source])
                       EXCEPT !.current_index = i + 1],
          index |-> i + 1]
    ELSE [state |-> [st EXCEPT !.current_index = i], index |-> i]

\* Lines 739-749: help.
CmdHelp ==
    /\ pc = "prompt"
    /\ \E command \in HelpWords : cmd' = Began("help")
    /\ UNCHANGED <<report, tree, files, pc, ret, state, findings, index,
                   patch, patch_source>>

\* An unrecognised command taken for next.
CmdOther_taken_for_next ==
    /\ pc = "prompt"
    /\ \E command \in OtherWords : cmd' = Began("other")
    /\ LET r == acknowledged(state, CurrentId, index)
       IN /\ state' = r.state
          /\ index' = r.index
          /\ ret' = AfterCommand(r.index)
    /\ pc' = "save"
    /\ UNCHANGED <<report, tree, files, findings, patch, patch_source>>

\* Line 897: an unrecognised command.
CmdOther ==
    /\ pc = "prompt"
    /\ \E command \in OtherWords : cmd' = Began("other")
    /\ UNCHANGED <<report, tree, files, pc, ret, state, findings, index,
                   patch, patch_source>>

\* Lines 751-752: quit leaves the loop.
CmdQuit ==
    /\ pc = "prompt"
    /\ \E command \in QuitWords : cmd' = Began("quit")
    /\ pc' = "exit"
    /\ UNCHANGED <<report, tree, files, ret, state, findings, index, patch,
                   patch_source>>

\* Lines 754-758: prev.
CmdPrev ==
    /\ pc = "prompt"
    /\ \E command \in PrevWords : cmd' = Began("prev")
    /\ LET r == previous(state, index)
       IN /\ state' = r.state
          /\ index' = r.index
          /\ ret' = AfterCommand(r.index)
    /\ pc' = "save"
    /\ UNCHANGED <<report, tree, files, findings, patch, patch_source>>

\* Lines 760-762: open; the user may edit the file in the editor.
CmdOpen ==
    /\ pc = "prompt"
    /\ \E command \in OpenWords : cmd' = Began("open")
    /\ tree' \in FileContents
    /\ UNCHANGED <<report, files, pc, ret, state, findings, index, patch,
                   patch_source>>

\* Lines 764-765: fix starts the assistant.
CmdFix ==
    /\ pc = "prompt"
    /\ \E command \in FixWords : cmd' = Began("fix")
    /\ pc' = "ai_fix"
    /\ UNCHANGED <<report, tree, files, ret, state, findings, index, patch,
                   patch_source>>

\* Lines 765-779: run_ai_fix returns (None when it fails), the entry is
\* updated and saved.
AiFixDone ==
    /\ pc = "ai_fix"
    /\ \E ai_output \in AiOutputs \cup {None} :
          /\ cmd' = [cmd EXCEPT !.output = ai_output]
          /\ state' = SetEntry(state, CurrentId,
                                fix_entry(CurrentEntry, ai_output))
    /\ pc' = "save"
    /\ ret' = AfterCommand(index)
    /\ UNCHANGED <<report, tree, files, findings, index, patch,
                   patch_source>>

\* Lines 781-797: apply looks at the cached patch first.
CmdApply ==
    /\ pc = "prompt"
    /\ LET cached == CurrentEntry.last_patch
           prepared_patch == IF Truthy(cached)
                             THEN prepare_patch_for_application(cached)
                             ELSE None
           began == [Began("apply") EXCEPT
                        !.cached = cached,
                        !.tried = IF Truthy(cached) THEN <<"cached">> ELSE <<>>]
       IN /\ \E command \in ApplyWords : cmd' = began
          /\ IF Truthy(prepared_patch)
             THEN /\ patch' = prepared_patch
                  /\ patch_source' = CurrentEntry.last_patch_source
                  /\ pc' = "preview"
                  /\ UNCHANGED <<state, ret>>
             ELSE IF Truthy(cached)
             THEN /\ patch' = EmptyText
                  /\ patch_source' = ""
                  /\ state' = SetEntry(state, CurrentId,
                                       discard_patch(CurrentEntry))
                  /\ pc' = "save"
                  /\ ret' = "apply_sugg"
             ELSE /\ patch' = EmptyText
                  /\ patch_source' = CurrentEntry.last_patch_source
                  /\ pc' = "apply_sugg"
                  /\ UNCHANGED <<state, ret>>
    /\ UNCHANGED <<report, tree, files, findings, index>>

\* Lines 799-827: without a patch, the diff of the finding's suggestion.
ApplySuggestion ==
    /\ pc = "apply_sugg"
    /\ LET suggestion == CurrentFinding.suggestion
           suggestion_patch == IF Truthy(suggestion)
                               THEN extract_patch(suggestion) ELSE None
           prepared_suggestion ==
               IF Truthy(suggestion_patch)
               THEN prepare_patch_for_application(suggestion_patch)
               ELSE None
       IN /\ cmd' = [cmd EXCEPT !.tried =
                        IF Truthy(suggestion) THEN Append(@, "suggestion") ELSE @]
          /\ IF Truthy(patch)
             THEN /\ pc' = "preview"
                  /\ UNCHANGED <<state, ret, patch, patch_source>>
             ELSE IF Truthy(prepared_suggestion)
             THEN /\ patch' = prepared_suggestion
                  /\ patch_source' = "suggestion"
                  /\ state' = SetEntry(state, CurrentId,
                        cache_patch(CurrentEntry, prepared_suggestion, "suggestion"))
                  /\ pc' = "save"
                  /\ ret' = "preview"
             ELSE /\ pc' = "gen_prompt"
                  /\ UNCHANGED <<state, ret, patch, patch_source>>
    /\ UNCHANGED <<report, tree, files, findings, index>>

\* Lines 828-833: the user is asked whether the assistant should be run.
GenAnswer ==
    /\ pc = "gen_prompt"
    /\ \E response \in Answers :
          /\ cmd' = [cmd EXCEPT !.gen = response]
          /\ pc' = IF AcceptsGeneration(response) THEN "ai_apply"
                   ELSE AfterCommand(index)
    /\ UNCHANGED <<report, tree, files, ret, state, findings, index, patch,
                   patch_source>>

\* Lines 834-863: the assistant's answer within apply.
AiApplyDone ==
    /\ pc = "ai_apply"
    /\ \E ai_output \in AiOutputs \cup {None} :
          LET ai_patch == extract_patch(ai_output)
              prepared_ai_patch == IF Truthy(ai_patch)
                                   THEN prepare_patch_for_application(ai_patch)
                                   ELSE None
              entry == [CurrentEntry EXCEPT !.last_ai_output = ai_output]
          IN /\ cmd' = [cmd EXCEPT !.tried = Append(@, "ai"),
                                    !.output = ai_output]
             /\ IF ~Truthy(ai_output)
                THEN /\ pc' = AfterCommand(index)
                     /\ UNCHANGED <<state, ret, patch, patch_source>>
                ELSE IF ~Truthy(prepared_ai_patch)
                THEN /\ state' = SetEntry(state, CurrentId,
                                           discard_patch(entry))
                     /\ pc' = "save"
                     /\ ret' = AfterCommand(index)
                     /\ UNCHANGED <<patch, patch_source>>
                ELSE /\ patch' = prepared_ai_patch
                     /\ patch_source' = "ai"
                     /\ state' = SetEntry(state, CurrentId,
                           cache_patch(entry, prepared_ai_patch, "ai"))
                     /\ pc' = "save"
                     /\ ret' = "preview"
    /\ UNCHANGED <<report, tree, files, findings, index>>

\* Lines 865-875: the patch is displayed before the confirmation prompt.
Preview ==
    /\ pc = "preview"
    /\ IF ~Truthy(patch)
       THEN pc' = AfterCommand(index) /\ UNCHANGED cmd
       ELSE pc' = "confirm" /\ cmd' = [cmd EXCEPT !.shown = patch]
    /\ UNCHANGED <<report, tree, files, ret, state, findings, index, patch,
                   patch_source>>

\* Lines 876-879: the confirmation.
ConfirmAnswer ==
    /\ pc = "confirm"
    /\ \E confirm \in Answers :
          /\ cmd' = [cmd EXCEPT !.answer = confirm]
          /\ pc' = IF AcceptsApply(confirm) THEN "git_apply"
                   ELSE AfterCommand(index)
    /\ UNCHANGED <<report, tree, files, ret, state, findings, index, patch,
                   patch_source>>

\* Lines 880-887: apply_patch returns, the outcome is stored and saved.
GitApplyDone ==
    /\ pc = "git_apply"
    /\ \E runs \in BOOLEAN :
          LET done == apply_patch(tree, patch, runs)
              r == applied(state, CurrentId, index, patch_source, done.ok)
          IN /\ tree' = done.tree
             /\ cmd' = [cmd EXCEPT !.git = done.git]
             /\ state' = r.state
             /\ index' = r.index
             /\ ret' = AfterCommand(r.index)
    /\ pc' = "save"
    /\ UNCHANGED <<report, files, findings, patch, patch_source>>

\* Lines 889-895: next.
CmdNext ==
    /\ pc = "prompt"
    /\ \E command \in NextWords : cmd' = Began("next")
    /\ LET r == acknowledged(state, CurrentId, index)
       IN /\ state' = r.state
          /\ index' = r.index
          /\ ret' = AfterCommand(r.index)
    /\ pc' = "save"
    /\ UNCHANGED <<report, tree, files, findings, patch, patch_source>>

\* Lines 930-933: Ctrl-C while the loop waits ends the process; the save
\* of line 900 is skipped.
Interrupt ==
    /\ pc \in SuspensionPoints
    /\ NoProcess
    /\ UNCHANGED <<report, tree, files>>

\* save_state, lines 230-233: opening the temporary file, writing it or
\* renaming it raises OSError; what was done before the failure stays.
SaveFails ==
    /\ pc \in {"save", "save_write", "save_replace"}
    /\ pc' = "raise"
    /\ UNCHANGED <<report, tree, files, ret, state, findings, index, patch,
                   patch_source, cmd>>

\* Lines 718-903 and 930-933: neither interactive_loop nor main has a
\* handler for OSError, so the exception ends the process with a traceback.
Unhandled ==
    /\ pc = "raise"
    /\ NoProcess
    /\ UNCHANGED <<report, tree, files>>

\* The process is killed, at any point.
Kill ==
    /\ pc \notin SuspensionPoints \cup {"stopped", "raise"}
    /\ NoProcess
    /\ UNCHANGED <<report, tree, files>>

\* main returns after the loop.
Done ==
    /\ pc = "done"
    /\ NoProcess
    /\ UNCHANGED <<report, tree, files>>

Next ==
    \/ EditReport \/ Start \/ SaveOpen \/ SaveWrite \/ SaveReplace
    \/ LoopInit \/ Exit \/ Done
    \/ CmdHelp \/ CmdOther \/ CmdQuit \/ CmdPrev \/ CmdOpen \/ CmdNext
    \/ CmdFix \/ AiFixDone
    \/ CmdApply \/ ApplySuggestion \/ GenAnswer \/ AiApplyDone
    \/ Preview \/ ConfirmAnswer \/ GitApplyDone
    \/ SaveFails \/ Unhandled \/ Interrupt \/ Kill

Spec == Init /\ [][Next]_vars

(***************************************************************************)
(* Reconciliation alone: main's load, reconcile and save, started on any   *)
(* store file (one left by another version or edited by hand included),    *)
(* and started again on its own result.                                    *)
(***************************************************************************)

\* The largest cursor a store file found on disk holds.
MaxPriorCursor == 2

PriorIds == {"id0", "id1", "id2"}

PriorEntries ==
    { FreshEntry,
      [FreshEntry EXCEPT !.status = "acknowledged"],
      [status |-> "fixed", last_ai_output |-> <<Prose>> \o FullDiffBlock,
       last_patch |-> extract_patch(FullDiffBlock),
       last_patch_source |-> "ai"] }

PriorEntryMaps ==
    UNION {[ids -> PriorEntries] : ids \in SUBSET PriorIds}

PriorStates ==
    {[review_hash |-> h, findings |-> m, current_index |-> c] :
        h \in {"h0", "h1", "h2"}, m \in PriorEntryMaps,
        c \in 0..MaxPriorCursor}
    \cup
    {[review_hash |-> h, findings |-> m] :
        h \in {"h1"}, m \in PriorEntryMaps}

PriorFiles == {AbsentFile, PartialFile} \cup {JsonFile(st) : st \in PriorStates}

InitEnsure ==
    /\ report \in 1..Len(Reports)
    /\ tree = "a"
    /\ \E f \in PriorFiles :
          files = [path \in {StatePath, tmp_path} |->
                     IF path = StatePath THEN f ELSE AbsentFile]
    /\ pc = "stopped"
    /\ ret = "stopped"
    /\ state = EmptyDict
    /\ findings = <<>>
    /\ index = 0
    /\ patch = None
    /\ patch_source = ""
    /\ cmd = Idle

NextEnsure == Start \/ SaveOpen \/ SaveWrite \/ SaveReplace \/ Kill

SpecEnsure == InitEnsure /\ [][NextEnsure]_vars

(***************************************************************************)
(* find_first_pending_index alone, called on any list of findings and any  *)
(* state, the entries of some findings missing included.                   *)
(***************************************************************************)

\* The longest list of findings the scan is given.
MaxScan == 3

ScanIds == {"id1", "id2"}

ScanFindings ==
    UNION {[1..n -> {Finding(id, EmptyText) : id \in ScanIds}] : n \in 0..MaxScan}

ScanEntries ==
    {EmptyDict} \cup
    {[FreshEntry EXCEPT !.status = status] :
        status \in {"pending", "acknowledged", "fixed"}}

ScanStates ==
    {EmptyDict} \cup
    {[findings |-> m] : m \in UNION {[ids -> ScanEntries] : ids \in SUBSET ScanIds}}

InitPending ==
    /\ report = 1
    /\ tree = "a"
    /\ files = [path \in {StatePath, tmp_path} |-> AbsentFile]
    /\ pc = "call_pending"
    /\ ret = "stopped"
    /\ state \in ScanStates
    /\ findings \in ScanFindings
    /\ index = 0
    /\ patch = None
    /\ patch_source = ""
    /\ cmd = Idle

\* A call of find_first_pending_index(findings, state) and its return.
CallFirstPending ==
    /\ pc = "call_pending"
    /\ index' = find_first_pending_index(findings, state)
    /\ pc' = "returned_pending"
    /\ UNCHANGED <<report, tree, files, ret, state, findings, patch,
                   patch_source, cmd>>

NextPending == CallFirstPending

SpecPending == InitPending /\ [][NextPending]_vars

(***************************************************************************)
(* parse_bad_findings alone, called on any short review text.              *)
(***************************************************************************)

\* The longest review text, in lines.
MaxLines == 4

SectionHeading == <<"## ", SectionTitle>>
OtherHeading == <<"## ", "Summary">>
AssessmentHeader(grade) == <<"### ", AssessmentTitle, " ">> \o grade
TitleLine == <<"**", "Title", "**", ": ", "Null check missing">>
NoteLine == <<"**", "Note", "**", ": ", "seen before">>

Grades ==
    { <<"B", "A", "D">>, <<"b", "a", "d">>, <<"B", "a", "d">>,
      <<"G", "O", "O", "D">>, <<"B", "A", "D", "L", "Y">> }

ReportLines ==
    {SectionHeading, OtherHeading, TitleLine, NoteLine, Prose}
        \cup {AssessmentHeader(grade) : grade \in Grades}

\* The review texts: up to MaxLines lines, the last one with or without
\* its newline.
ReviewTexts ==
    LET unfinished == UNION {[1..n -> ReportLines] : n \in 0..MaxLines}
    IN {AddNewline(t) : t \in unfinished} \cup (unfinished \ {<<>>})

\* Reviews of two blocks of one body line each, in either order.
TwoBlockTexts ==
    LET bodies == {TitleLine, NoteLine, Prose}
    IN {<<SectionHeading, AssessmentHeader(g), l, AssessmentHeader(h), m,
          <<>> >> : g \in Grades, h \in Grades, l \in bodies, m \in bodies}

InitParse ==
    /\ report \in ReviewTexts \cup TwoBlockTexts
    /\ tree = "a"
    /\ files = [path \in {StatePath, tmp_path} |-> AbsentFile]
    /\ pc = "stopped"
    /\ ret = "stopped"
    /\ state = EmptyDict
    /\ findings = <<>>
    /\ index = 0
    /\ patch = None
    /\ patch_source = ""
    /\ cmd = Idle

\* main, line 919: the review text is parsed.
ParseReport ==
    /\ pc = "stopped"
    /\ findings' = parse_bad_findings(report)
    /\ pc' = "parsed"
    /\ UNCHANGED <<report, tree, files, ret, state, index, patch,
                   patch_source, cmd>>

NextParse == ParseReport

SpecParse == InitParse /\ [][NextParse]_vars

(***************************************************************************)
(* extract_patch on its own: the texts an assistant or a suggestion may    *)
(* hold, a few lines of fences, prose and diff lines.                      *)
(***************************************************************************)

MaxOutputLines == 4

\* A context line of a hunk: a blank, then the line of the file.
ContextLine == <<" ", "x">>

OutputLines ==
    { <<Fence, "diff">>, <<Fence, "python">>, <<Fence>>, Prose, HunkHeader,
      ContextLine }

OutputTexts ==
    LET unfinished == UNION {[1..n -> OutputLines] : n \in 0..MaxOutputLines}
    IN {AddNewline(t) : t \in unfinished} \cup (unfinished \ {<<>>})

InitExtract ==
    /\ report = 0
    /\ tree = "a"
    /\ files = [path \in {StatePath, tmp_path} |-> AbsentFile]
    /\ pc = "call_extract"
    /\ ret = "stopped"
    /\ state = EmptyDict
    /\ findings = <<>>
    /\ index = 0
    /\ patch = None
    /\ patch_source = ""
    /\ cmd \in {[Idle EXCEPT !.output = text] : text \in OutputTexts}

\* patch = extract_patch(ai_output), lines 770 and 846.
CallExtractPatch ==
    /\ pc = "call_extract"
    /\ patch' = extract_patch(cmd.output)
    /\ pc' = "returned_extract"
    /\ UNCHANGED <<report, tree, files, ret, state, findings, index,
                   patch_source, cmd>>

NextExtract == CallExtractPatch

SpecExtract == InitExtract /\ [][NextExtract]_vars

(***************************************************************************)
(* The normalizer alone, as postprocess_review.py calls it for a finding:  *)
(* on the diff taken from the suggestion and the finding's file.           *)
(***************************************************************************)

\* The longest diff, in lines.
MaxDiffLines == 4

TargetPath == <<"src/", "x.go">>
OtherPath == <<"old/", "y.go">>
DevNullLikePath == <<"src/", "dev/null.go">>
DevNullOld == <<"--- ", "/dev/null">>

\* A removed line of a hunk whose text starts with two dashes: the line
\* "-- drop the cache" of an SQL file, behind its "-".
RemovedDashes == <<"--- ", "drop the cache">>

\* A hunk header written without the space behind its "@@".
TightHunkHeader == <<"@@", "-1,1 +1,1 @@">>

\* The file of a finding: none, blank, the target path as it is and as
\* a reviewer on another system may write it.
FilePaths ==
    { None, <<" ">>, TargetPath, <<" ", ".\\", "src\\", "x.go", " ">> }

DiffLines ==
    { DiffLine(OtherPath), OldLine(OtherPath), NewLine(OtherPath),
      DevNullOld, OldLine(DevNullLikePath), RemovedDashes, HunkHeader,
      TightHunkHeader, Addition("b") \o <<CR>>, <<>>, Prose }

Diffs == UNION {[1..n -> DiffLines] : n \in 1..MaxDiffLines}

InitNormalize ==
    /\ report = 0
    /\ tree = "a"
    /\ files = [path \in {StatePath, tmp_path} |-> AbsentFile]
    /\ pc = "call_prepare"
    /\ ret = "stopped"
    /\ state = EmptyDict
    /\ findings \in {<<[file |-> path, patch |-> diff]>> :
                        path \in FilePaths, diff \in Diffs}
    /\ index = 0
    /\ patch = None
    /\ patch_source = ""
    /\ cmd = Idle

\* prepared = prepare_patch_for_application(patch, finding.file),
\* postprocess_review.py line 323.
CallPreparePatch ==
    /\ pc = "call_prepare"
    /\ patch' = postprocess_prepare_patch_for_application(findings[1].patch, findings[1].file)
    /\ pc' = "returned_prepare"
    /\ UNCHANGED <<report, tree, files, ret, state, findings, index,
                   patch_source, cmd>>

NextNormalize == CallPreparePatch

SpecNormalize == InitNormalize /\ [][NextNormalize]_vars

(***************************************************************************)
(* postprocess_review.py: the suggestions of a report are normalized,      *)
(* checked against the working tree and written back.  The program reads   *)
(* the report with parse_bad_findings and extract_patch of                 *)
(* interactive_review.py and finds the text to replace with                *)
(* SUGGESTION_PATTERN.                                                     *)
(***************************************************************************)

NoPatchMarker == "(no auto-applicable patch)"

\* The labels "Suggestion[^*]*" of SUGGESTION_PATTERN matches, capital S
\* only.
PatternLabels ==
    {"Suggestion", "Suggestion (if 'BAD')", "Suggestion (if BAD)"}

\* SUGGESTION_PATTERN at token k of a line: the label between its stars
\* and the colon right behind them.
PatternAt(line, k) ==
    /\ k + 3 <= Len(line)
    /\ line[k] = "**"
    /\ line[k + 1] \in PatternLabels
    /\ line[k + 2] = "**"
    /\ line[k + 3] \in {":", ": "}

\* The lookahead of SUGGESTION_PATTERN: a line that starts with
\* "**Reasoning" or with "---".
EndsContent(line) ==
    \/ StartsWith(line, "---")
    \/ Len(line) >= 2 /\ line[1] = "**" /\ line[2] = "Reasoning"

\* SUGGESTION_PATTERN.search(raw_block), lines 138-141: the line and the
\* token where the first match starts and the line before which the
\* content ends (one past the last line when nothing ends it); line 0
\* for no match.
suggestion_match(raw_block) ==
    LET lines == {i \in 1..Len(raw_block) :
                    \E k \in 1..Len(raw_block[i]) : PatternAt(raw_block[i], k)}
        i == CHOOSE i \in lines : \A m \in lines : i <= m
        k == CHOOSE k \in 1..Len(raw_block[i]) :
                /\ PatternAt(raw_block[i], k)
                /\ \A m \in 1..(k - 1) : ~PatternAt(raw_block[i], m)
        ends == {j \in (i + 1)..Len(raw_block) : EndsContent(raw_block[j])}
    IN IF lines = {} THEN [line |-> 0, token |-> 0, end |-> 0]
       ELSE [line |-> i, token |-> k,
             end |-> IF ends = {} THEN Len(raw_block) + 1
                     ELSE CHOOSE j \in ends : \A m \in ends : j <= m]

\* update_suggestion_block(raw_block, replacement), lines 233-242.  The
\* replacement is a text whose first line goes on behind the colon.
update_suggestion_block(raw_block, replacement) ==
    LET match == suggestion_match(raw_block)
        label == SubSeq(raw_block[match.line], 1, match.token + 2) \o <<":">>
    IN IF match.line = 0 THEN raw_block
       ELSE SubSeq(raw_block, 1, match.line - 1)
               \o <<label \o replacement[1]>>
               \o Tail(replacement)
               \o SubSeq(raw_block, match.end, Len(raw_block))

\* format_diff_suggestion(patch), lines 245-247.
format_diff_suggestion(p) ==
    << <<>>, <<Fence, "diff">> >> \o RStripNewlines(p) \o << <<Fence>> >>

\* format_no_patch(), lines 250-251.
format_no_patch == << <<" ", NoPatchMarker>> >>

\* run_git_apply_check(repo_root, patch), lines 212-230, with git
\* installed: whether "git apply --check" accepts the diff on the tree.
run_git_apply_check(tr, p) == GitAccepts(tr, p)

\* The file of a finding as the one line it is.
PathOf(text) == text[1]

\* main, lines 310-347: the block that takes the place of the finding's
\* block, the block itself for a finding that is passed over.
new_block(finding, tr) ==
    LET suggestion == StripText(finding.suggestion)
        p == extract_patch(suggestion)
        prepared == postprocess_prepare_patch_for_application(
                        p, PathOf(finding.file))
    IN IF suggestion = << <<NoPatchMarker>> >> THEN finding.raw_block
       ELSE IF ~Truthy(p)
       THEN update_suggestion_block(finding.raw_block, format_no_patch)
       ELSE IF ~Truthy(prepared)
       THEN update_suggestion_block(finding.raw_block, format_no_patch)
       ELSE IF ~run_git_apply_check(tr, prepared)
       THEN update_suggestion_block(finding.raw_block, format_no_patch)
       ELSE update_suggestion_block(finding.raw_block,
                                    format_diff_suggestion(prepared))

\* Whether line is prefix followed by more tokens or by none.
IsPrefix(prefix, line) ==
    Len(prefix) <= Len(line) /\ SubSeq(line, 1, Len(prefix)) = prefix

\* Whether old stands in text from line s on.  A block starts where a
\* line starts; its last line may stop before the line does.
OccursAt(text, old, s) ==
    /\ s + Len(old) - 1 <= Len(text)
    /\ \A m \in 1..(Len(old) - 1) : text[s + m - 1] = old[m]
    /\ IsPrefix(old[Len(old)], text[s + Len(old) - 1])

\* text.replace(old, new, 1), line 351.
replace_first(text, old, new) ==
    LET places == {s \in 1..Len(text) : OccursAt(text, old, s)}
        s == CHOOSE s \in places : \A m \in places : s <= m
        last == text[s + Len(old) - 1]
        rest == SubSeq(last, Len(old[Len(old)]) + 1, Len(last))
    IN IF places = {} THEN text
       ELSE SubSeq(text, 1, s - 1)
               \o SubSeq(new, 1, Len(new) - 1)
               \o <<new[Len(new)] \o rest>>
               \o SubSeq(text, s + Len(old), Len(text))

\* main, lines 348-351: the replacements made one after the other.
RECURSIVE apply_replacements(_, _, _)
apply_replacements(text, fs, tr) ==
    IF fs = <<>> THEN text
    ELSE LET old == fs[1].raw_block
             new == new_block(fs[1], tr)
         IN apply_replacements(
                IF old = new THEN text ELSE replace_first(text, old, new),
                Tail(fs), tr)

\* main, lines 284-368: the text of the report file after the run.
postprocess_main(review_text, tr) ==
    LET fs == parse_bad_findings(review_text)
    IN IF fs = <<>> THEN review_text
       ELSE apply_replacements(review_text, fs, tr)

\* The most BAD blocks a report to postprocess has.
MaxBlocks == 2

SuggestionLine(label) == <<"**", label, "**", ":">>
FileLine == <<"**", "File", "**", ":", " ", TargetFile>>
ReasoningLine == <<"**", "Reasoning", "**", ":", " ", "it can be nil">>

\* What a block may hold for a suggestion: nothing, words, the marker, a
\* fenced diff with file headers, a fenced hunk.
SuggestionParts ==
    { <<>> }
    \cup UNION { { << SuggestionLine(label) \o <<" ", "rename it">> >>,
                   << SuggestionLine(label) \o <<" ", NoPatchMarker>> >>,
                   <<SuggestionLine(label)>> \o FullDiffBlock,
                   <<SuggestionLine(label)>> \o BareDiffBlock }
                 : label \in {"Suggestion", "suggestion"} }

BadBlocks ==
    { <<AssessmentHeader(<<"B", "A", "D">>)>> \o file \o part \o reasoning :
        file \in { <<>>, <<FileLine>> },
        part \in SuggestionParts,
        reasoning \in { <<>>, <<ReasoningLine>> } }

RECURSIVE Joined(_)
Joined(blocks) ==
    IF blocks = <<>> THEN <<>> ELSE blocks[1] \o Joined(Tail(blocks))

\* The reports: the section heading, one to MaxBlocks blocks, a newline.
PostprocessReports ==
    { AddNewline(<<SectionHeading>> \o Joined(blocks)) :
        blocks \in UNION {[1..n -> BadBlocks] : n \in 1..MaxBlocks} }

InitPostprocess ==
    /\ report \in PostprocessReports
    /\ tree \in FileContents
    /\ files = [path \in {StatePath, tmp_path} |-> AbsentFile]
    /\ pc = "stopped"
    /\ ret = "stopped"
    /\ state = EmptyDict
    /\ findings = <<>>
    /\ index = 0
    /\ patch = None
    /\ patch_source = ""
    /\ cmd = Idle

\* One run of postprocess_review.py on the report file; findings is what
\* the run read from it.  The step is run at most twice.
PostprocessRun ==
    /\ pc \in {"stopped", "ran_once"}
    /\ findings' = parse_bad_findings(report)
    /\ report' = postprocess_main(report, tree)
    /\ pc' = IF pc = "stopped" THEN "ran_once" ELSE "ran_twice"
    /\ UNCHANGED <<tree, files, ret, state, index, patch, patch_source, cmd>>

NextPostprocess == PostprocessRun

SpecPostprocess == InitPostprocess /\ [][NextPostprocess]_vars

(***************************************************************************)
(* review_viewer/app.py: a ReviewWatcher, its thread and the requests that *)
(* subscribe to it.  tree is the modification time of the review file,     *)
(* state the watcher object, cmd the locals of the watcher thread, ret the *)
(* locals of each subscribing request and findings the queue of each.      *)
(* What is done under the lock is one step; every other read and write of  *)
(* a shared field is a step of its own.                                    *)
(***************************************************************************)

\* The most changes the review file goes through.
MaxTouches == 2

Subscribers == {"s1", "s2"}
WatchThread == "watch"

\* _current_state() of a file that does not exist: None.
Missing == -1

\* WatchPayload(type, exists, mtime_ns), lines 22-35.
WatchPayload(type, exists, mtime_ns) ==
    [type |-> type, exists |-> exists, mtime_ns |-> mtime_ns]

\* ReviewWatcher.__init__, lines 41-50: the state of the file is read and
\* the thread started.
InitWatcher ==
    /\ report = 0
    /\ tree \in {Missing, 0}
    /\ files = [path \in {StatePath, tmp_path} |-> AbsentFile]
    /\ pc = [t \in Subscribers \cup {WatchThread} |->
                IF t = WatchThread THEN "loop" ELSE "idle"]
    /\ ret = [s \in Subscribers |-> [exists |-> FALSE, mtime_ns |-> Missing]]
    /\ state = [_last_state |-> tree, _subscribers |-> {},
                _stop_event |-> FALSE]
    /\ findings = [s \in Subscribers |-> <<>>]
    /\ index = 0
    /\ patch = None
    /\ patch_source = ""
    /\ cmd = [state |-> Missing, subscribers |-> {},
              payload |-> WatchPayload("", FALSE, Missing)]

\* The review file is written, or created: its modification time moves on.
TouchFile ==
    /\ index < MaxTouches
    /\ index' = index + 1
    /\ tree' = index + 1
    /\ UNCHANGED <<report, files, pc, ret, state, findings, patch,
                   patch_source, cmd>>

\* subscribe, lines 53-55: the queue is made and added under the lock.
SubscribeAdd(s) ==
    /\ pc[s] = "idle"
    /\ state' = [state EXCEPT !._subscribers = @ \cup {s}]
    /\ pc' = [pc EXCEPT ![s] = "added"]
    /\ UNCHANGED <<report, tree, files, ret, findings, index, patch,
                   patch_source, cmd>>

\* subscribe, line 56: the first argument, "self._last_state is not None".
SubscribeReadExists(s) ==
    /\ pc[s] = "added"
    /\ ret' = [ret EXCEPT ![s].exists = state._last_state # Missing]
    /\ pc' = [pc EXCEPT ![s] = "read_exists"]
    /\ UNCHANGED <<report, tree, files, state, findings, index, patch,
                   patch_source, cmd>>

\* subscribe, line 56: the second argument, "self._last_state".
SubscribeReadState(s) ==
    /\ pc[s] = "read_exists"
    /\ ret' = [ret EXCEPT ![s].mtime_ns = state._last_state]
    /\ pc' = [pc EXCEPT ![s] = "read_state"]
    /\ UNCHANGED <<report, tree, files, state, findings, index, patch,
                   patch_source, cmd>>

\* subscribe, lines 56-57: the status payload is put and the queue
\* returned.
SubscribePut(s) ==
    /\ pc[s] = "read_state"
    /\ findings' = [findings EXCEPT ![s] =
          Append(@, WatchPayload("status", ret[s].exists, ret[s].mtime_ns))]
    /\ pc' = [pc EXCEPT ![s] = "subscribed"]
    /\ UNCHANGED <<report, tree, files, ret, state, index, patch,
                   patch_source, cmd>>

\* unsubscribe, lines 59-61.
Unsubscribe(s) ==
    /\ pc[s] = "subscribed"
    /\ state' = [state EXCEPT !._subscribers = @ \ {s}]
    /\ pc' = [pc EXCEPT ![s] = "unsubscribed"]
    /\ UNCHANGED <<report, tree, files, ret, findings, index, patch,
                   patch_source, cmd>>

\* stop, lines 63-65: the event is set.
StopWatcher ==
    /\ ~state._stop_event
    /\ state' = [state EXCEPT !._stop_event = TRUE]
    /\ UNCHANGED <<report, tree, files, pc, ret, findings, index, patch,
                   patch_source, cmd>>

\* _run, lines 68-69: the loop test and the state of the file read.
WatchPoll ==
    /\ pc[WatchThread] = "loop"
    /\ IF state._stop_event
       THEN /\ pc' = [pc EXCEPT ![WatchThread] = "stopped"]
            /\ cmd' = cmd
       ELSE /\ pc' = [pc EXCEPT ![WatchThread] = "compare"]
            /\ cmd' = [cmd EXCEPT !.state = tree]
    /\ UNCHANGED <<report, tree, files, ret, state, findings, index, patch,
                   patch_source>>

\* _run, lines 70-73: a new state is recorded and its payload made;
\* otherwise the thread waits and goes round.
WatchCompare ==
    /\ pc[WatchThread] = "compare"
    /\ IF cmd.state # state._last_state
       THEN /\ state' = [state EXCEPT !._last_state = cmd.state]
            /\ cmd' = [cmd EXCEPT !.payload =
                          WatchPayload("update", cmd.state # Missing,
                                       cmd.state)]
            /\ pc' = [pc EXCEPT ![WatchThread] = "broadcast"]
       ELSE /\ pc' = [pc EXCEPT ![WatchThread] = "loop"]
            /\ UNCHANGED <<state, cmd>>
    /\ UNCHANGED <<report, tree, files, ret, findings, index, patch,
                   patch_source>>

\* _broadcast, lines 76-77: the subscribers are copied under the lock.
BroadcastCopy ==
    /\ pc[WatchThread] = "broadcast"
    /\ cmd' = [cmd EXCEPT !.subscribers = state._subscribers]
    /\ pc' = [pc EXCEPT ![WatchThread] = "put"]
    /\ UNCHANGED <<report, tree, files, ret, state, findings, index, patch,
                   patch_source>>

\* _broadcast, lines 78-79: the payload is put in the queue of one more
\* subscriber of the copy.
BroadcastPut(s) ==
    /\ pc[WatchThread] = "put"
    /\ s \in cmd.subscribers
    /\ findings' = [findings EXCEPT ![s] = Append(@, cmd.payload)]
    /\ cmd' = [cmd EXCEPT !.subscribers = @ \ {s}]
    /\ UNCHANGED <<report, tree, files, pc, ret, state, index, patch,
                   patch_source>>

\* _broadcast returns, and _run waits and goes round, line 73.
BroadcastDone ==
    /\ pc[WatchThread] = "put"
    /\ cmd.subscribers = {}
    /\ pc' = [pc EXCEPT ![WatchThread] = "loop"]
    /\ UNCHANGED <<report, tree, files, ret, state, findings, index, patch,
                   patch_source, cmd>>

NextWatcher ==
    \/ TouchFile
    \/ \E s \in Subscribers : SubscribeAdd(s)
    \/ \E s \in Subscribers : SubscribeReadExists(s)
    \/ \E s \in Subscribers : SubscribeReadState(s)
    \/ \E s \in Subscribers : SubscribePut(s)
    \/ \E s \in Subscribers : Unsubscribe(s)
    \/ StopWatcher
    \/ WatchPoll
    \/ WatchCompare
    \/ BroadcastCopy
    \/ \E s \in Subscribers : BroadcastPut(s)
    \/ BroadcastDone

SpecWatcher == InitWatcher /\ [][NextWatcher]_vars

(***************************************************************************)
(* Two instances of the workflow on one store.  Both read the first        *)
(* report; each has its own state, cursor and position, and they share     *)
(* the directory: pc, ret, state and index are functions of the instance,  *)
(* and cmd holds for each instance where the file its open handle refers   *)
(* to now is.  An open for writing truncates the file at the path or       *)
(* creates it; a write goes to the file the handle refers to, wherever a   *)
(* rename has moved it; the text is written when the handle is closed.     *)
(***************************************************************************)

Instances == {"A", "B"}

\* A file holding the head of one text and the tail of another.
MixedFile == [kind |-> "mixed"]

\* A handle that refers to no file, and one whose file has lost its name.
NoHandle == "none"
Unlinked == "unlinked"

\* The file after the text of st is written at its start: the text when
\* the file was empty; over another text the result is that of st when
\* it is at least as long, and its bytes followed by the rest of the
\* other text when it is shorter (the model carries no lengths).
Overwritten(file, st) ==
    IF file.kind = "partial" \/ file = JsonFile(st) THEN {JsonFile(st)}
    ELSE {JsonFile(st), MixedFile}

\* The handles after the file at src is renamed over dst.
Renamed(handles, src, dst) ==
    [q \in DOMAIN handles |->
        IF handles[q] = src THEN dst
        ELSE IF handles[q] = dst THEN Unlinked
        ELSE handles[q]]

InitConcurrent ==
    /\ report = 1
    /\ tree = "a"
    /\ files = [path \in {StatePath, tmp_path} |-> AbsentFile]
    /\ pc = [p \in Instances |-> "stopped"]
    /\ ret = [p \in Instances |-> "stopped"]
    /\ state = [p \in Instances |-> EmptyDict]
    /\ findings = Reports[report].findings
    /\ index = [p \in Instances |-> 0]
    /\ patch = None
    /\ patch_source = ""
    /\ cmd = [p \in Instances |-> NoHandle]

\* main, lines 919-928, in instance p.
StartInstance(p) ==
    /\ pc[p] = "stopped"
    /\ state' = [state EXCEPT ![p] =
                    ensure_state_for_findings(load_state(files[StatePath]),
                        Reports[report].review_hash, findings)]
    /\ pc' = [pc EXCEPT ![p] = "save"]
    /\ ret' = [ret EXCEPT ![p] = "loop_init"]
    /\ UNCHANGED <<report, tree, files, findings, index, patch,
                   patch_source, cmd>>

\* save_state, line 230, in instance p.
InstanceSaveOpen(p) ==
    /\ pc[p] = "save"
    /\ files' = [files EXCEPT ![tmp_path] = PartialFile]
    /\ cmd' = [cmd EXCEPT ![p] = tmp_path]
    /\ pc' = [pc EXCEPT ![p] = "save_write"]
    /\ UNCHANGED <<report, tree, ret, state, findings, index, patch,
                   patch_source>>

\* save_state, lines 231-232, in instance p.
InstanceSaveWrite(p) ==
    /\ pc[p] = "save_write"
    /\ IF cmd[p] \in DOMAIN files
       THEN \E written \in Overwritten(files[cmd[p]], state[p]) :
               files' = [files EXCEPT ![cmd[p]] = written]
       ELSE UNCHANGED files
    /\ cmd' = [cmd EXCEPT ![p] = NoHandle]
    /\ pc' = [pc EXCEPT ![p] = "save_replace"]
    /\ UNCHANGED <<report, tree, ret, state, findings, index, patch,
                   patch_source>>

\* save_state, line 233, in instance p: Path.replace raises
\* FileNotFoundError when the temporary file is not there.
InstanceSaveReplace(p) ==
    /\ pc[p] = "save_replace"
    /\ IF files[tmp_path] = AbsentFile
       THEN /\ pc' = [pc EXCEPT ![p] = "raise"]
            /\ UNCHANGED <<files, cmd>>
       ELSE /\ files' = replace(files, tmp_path, StatePath)
            /\ cmd' = Renamed(cmd, tmp_path, StatePath)
            /\ pc' = [pc EXCEPT ![p] = ret[p]]
    /\ UNCHANGED <<report, tree, ret, state, findings, index, patch,
                   patch_source>>

\* interactive_loop, lines 721-729, in instance p.
InstanceLoopInit(p) ==
    /\ pc[p] = "loop_init"
    /\ LET i == Min(state[p].current_index, Len(findings))
           start == IF i >= Len(findings)
                    THEN find_first_pending_index(findings, state[p]) ELSE i
       IN /\ index' = [index EXCEPT ![p] = start]
          /\ pc' = [pc EXCEPT ![p] = AfterCommand(start)]
    /\ UNCHANGED <<report, tree, files, ret, state, findings, patch,
                   patch_source, cmd>>

\* Lines 889-895 (next), in instance p.
InstanceNext(p) ==
    /\ pc[p] = "prompt"
    /\ LET r == acknowledged(state[p], findings[index[p] + 1].identifier,
                             index[p])
       IN /\ state' = [state EXCEPT ![p] = r.state]
          /\ index' = [index EXCEPT ![p] = r.index]
          /\ ret' = [ret EXCEPT ![p] = AfterCommand(r.index)]
    /\ pc' = [pc EXCEPT ![p] = "save"]
    /\ UNCHANGED <<report, tree, files, findings, patch, patch_source, cmd>>

\* Lines 899-900, in instance p.
InstanceExit(p) ==
    /\ pc[p] = "exit"
    /\ state' = [state EXCEPT ![p] =
                    [@ EXCEPT !.current_index =
                        Max(0, Min(index[p], Len(findings)))]]
    /\ pc' = [pc EXCEPT ![p] = "save"]
    /\ ret' = [ret EXCEPT ![p] = "done"]
    /\ UNCHANGED <<report, tree, files, findings, index, patch,
                   patch_source, cmd>>

NextConcurrent ==
    \E p \in Instances :
        \/ StartInstance(p) \/ InstanceSaveOpen(p) \/ InstanceSaveWrite(p)
        \/ InstanceSaveReplace(p) \/ InstanceLoopInit(p)
        \/ InstanceNext(p) \/ InstanceExit(p)

SpecConcurrent == InitConcurrent /\ [][NextConcurrent]_vars

(***************************************************************************)
(* Properties                                                              *)
(***************************************************************************)

\* main has reconciled the state and not yet saved it: the store file
\* still holds what load_state read.
AfterEnsure == pc = "save" /\ ret = "loop_init"
Prior == load_state(files[StatePath])
ReviewHash == Reports[report].review_hash
ReportChanged ==
    "review_hash" \notin DOMAIN Prior \/ Prior.review_hash # ReviewHash
PriorEntriesOnDisk ==
    IF "findings" \in DOMAIN Prior THEN Prior.findings ELSE EmptyDict
AllFresh(ids) == [id \in ids |-> FreshEntry]

\* C1: crash-safety of the loop.  Wherever the process waits (for a
\* command, an answer, the assistant or the patch tool) and so can be
\* interrupted or killed between commands, the store file holds exactly
\* the state in memory and the loop's cursor is the stored cursor; and a
\* process started on an unchanged report takes over the stored entries
\* and cursor as they are.
C1_StoreMatchesMemoryAtWaits ==
    /\ [](pc \in SuspensionPoints =>
            /\ files[StatePath] = JsonFile(state)
            /\ state.current_index = index)
    /\ [][(pc = "stopped" /\ pc' = "save" /\ ~ReportChanged)
            => state' = files[StatePath].data]_vars

\* C1 witness: a fresh process (no command given yet) waits at the prompt
\* with the progress of an earlier process: a finding acknowledged, the
\* cursor advanced.
C1_Witness ==
    /\ pc = "prompt"
    /\ cmd = Idle
    /\ index = 1
    /\ state.findings[findings[1].identifier].status = "acknowledged"

\* C2: atomic persistence.  At every step of a save, and after a kill at
\* any step, the store path holds a complete document: it is never
\* partially written, and it changes only by the rename, to the complete
\* new state.
C2_StoreNeverPartial ==
    /\ [](files[StatePath].kind \in {"absent", "json"})
    /\ [][files'[StatePath] # files[StatePath]
            => /\ pc = "save_replace"
               /\ files'[StatePath] = JsonFile(state)
               /\ files[tmp_path] = JsonFile(state)]_vars

\* C2 witness: a save is under way, the temporary file is half written
\* and the store still holds the complete previous state.
C2_Witness ==
    /\ pc = "save_write"
    /\ files[tmp_path].kind = "partial"
    /\ files[StatePath].kind = "json"
    /\ files[StatePath].data # state

\* C3: reconcile on a changed report.  When the stored fingerprint differs
\* from the report's (or nothing is stored), the result has cursor 0 and
\* exactly one fresh pending entry per current finding; nothing of the
\* stored entries survives, also for identifiers that occur in both.
C3_ChangedReportResets ==
    (AfterEnsure /\ ReportChanged) =>
        state = [review_hash |-> ReviewHash,
                 findings |-> AllFresh(FindingIds(findings)),
                 current_index |-> 0]

\* C3 witness: the stored state is of another report, has an advanced
\* cursor and a fixed entry for an identifier the new report has too.
C3_Witness ==
    /\ AfterEnsure
    /\ ReportChanged
    /\ "current_index" \in DOMAIN Prior /\ Prior.current_index > 0
    /\ \E id \in DOMAIN PriorEntriesOnDisk \cap DOMAIN state.findings :
          PriorEntriesOnDisk[id].status = "fixed"

\* C4: after ensure_state_for_findings the entry keys are exactly the
\* identifiers of the current findings; with a matching fingerprint the
\* stored entries of those identifiers and the stored cursor are carried
\* over unchanged, and every other identifier gets a fresh pending entry.
C4_KeysAreCurrentFindings ==
    AfterEnsure =>
        /\ DOMAIN state.findings = FindingIds(findings)
        /\ ~ReportChanged =>
              /\ \A id \in FindingIds(findings) :
                    state.findings[id] =
                        IF id \in DOMAIN PriorEntriesOnDisk
                        THEN PriorEntriesOnDisk[id] ELSE FreshEntry
              /\ state.current_index =
                    IF "current_index" \in DOMAIN Prior
                    THEN Prior.current_index ELSE 0

\* C4 witness: a matching fingerprint, a stale identifier to drop, a
\* missing one to add and a resolved one to carry over.
C4_Witness ==
    /\ AfterEnsure
    /\ ~ReportChanged
    /\ "current_index" \in DOMAIN Prior
    /\ DOMAIN PriorEntriesOnDisk \ FindingIds(findings) # {}
    /\ FindingIds(findings) \ DOMAIN PriorEntriesOnDisk # {}
    /\ Prior.current_index = 1
    /\ \E id \in DOMAIN PriorEntriesOnDisk \cap FindingIds(findings) :
          state.findings[id].status = "fixed"

\* C5: reconcile is idempotent.  Applied to its own result with the same
\* fingerprint and findings, ensure_state_for_findings returns that result.
C5_ReconcileIdempotent ==
    AfterEnsure =>
        ensure_state_for_findings(state, ReviewHash, findings) = state

\* C5 witness: a first reconcile that changed the stored state (entries
\* dropped and added), so that the second has something to repeat.
C5_Witness ==
    /\ AfterEnsure
    /\ "findings" \in DOMAIN Prior
    /\ DOMAIN Prior.findings \ DOMAIN state.findings # {}
    /\ DOMAIN state.findings \ DOMAIN Prior.findings # {}
    /\ state # Prior

\* The finding the command in progress (or last completed) was given at.
CommandFinding == findings[cmd.at + 1]
CommandEntry == state.findings[CommandFinding.identifier]
Statuses == [id \in DOMAIN state.findings |-> state.findings[id].status]
ApplyInvoked == pc = "git_apply" \/ cmd.git # <<>>

\* C6: within apply, apply_patch is invoked only after the diff it gets
\* was displayed and the user then confirmed with "y"; every other answer
\* returns to the prompt with state, cursor, store file and tree as they
\* were.
C6_ApplyOnlyAfterConfirmation ==
    /\ [](ApplyInvoked =>
            /\ cmd.name = "apply"
            /\ Truthy(patch)
            /\ cmd.shown = patch
            /\ cmd.answer = "y"
            /\ \A k \in 1..Len(cmd.git) :
                  cmd.git[k].input = prepare_patch_for_application(cmd.shown))
    /\ [][(pc = "confirm" /\ pc' # "stopped" /\ cmd'.answer # "y")
            => /\ pc' = "prompt"
               /\ cmd'.git = <<>>
               /\ UNCHANGED <<state, index, files, tree>>]_vars

\* C6 witness: the patch tool is running on the diff that was displayed
\* and confirmed.
C6_Witness ==
    /\ pc = "git_apply"
    /\ cmd.shown = patch
    /\ cmd.answer = "y"

\* C7: within apply, every real "git apply" is preceded by a dry run
\* ("git apply --check") of the identical diff text that accepted it.
C7_DryRunBeforeApply ==
    \A k \in 1..Len(cmd.git) :
        cmd.git[k].args = <<"git", "apply", "-">> =>
            \E j \in 1..(k - 1) :
                /\ cmd.git[j].args = <<"git", "apply", "--check", "-">>
                /\ cmd.git[j].input = cmd.git[k].input
                /\ cmd.git[j].ok

\* C8: when apply_patch returns success the finding becomes fixed and the
\* cursor, in the loop and in the state, advances by one; when it fails
\* all statuses and the cursor stay as they were.  No other step of a
\* running process makes a status fixed.
C8_OutcomeOfConfirmedApply ==
    /\ [][(pc = "git_apply" /\ pc' = "save") =>
            IF cmd'.git # <<>> /\ cmd'.git[1].ok
            THEN /\ state'.findings[CurrentId].status = "fixed"
                 /\ index' = index + 1
                 /\ state'.current_index = state.current_index + 1
                 /\ tree' = GitResult(tree, patch)
            ELSE /\ Statuses' = Statuses
                 /\ index' = index
                 /\ state'.current_index = state.current_index
                 /\ tree' = tree]_vars
    /\ [][(pc # "stopped" /\ pc' # "stopped") =>
            \A id \in DOMAIN state.findings :
                (state'.findings[id].status = "fixed"
                    /\ state.findings[id].status # "fixed")
                => /\ pc = "git_apply"
                   /\ id = CurrentId
                   /\ cmd'.git # <<>> /\ cmd'.git[1].ok]_vars

\* C8 witness: a confirmed apply succeeded on the first finding, which is
\* now fixed, and the loop prompts at the second.
C8_Witness ==
    /\ pc = "prompt"
    /\ cmd.name = "apply"
    /\ cmd.git # <<>> /\ cmd.git[1].ok
    /\ cmd.at = 0 /\ index = 1 /\ state.current_index = 1
    /\ CommandEntry.status = "fixed"

CachedUsable ==
    Truthy(cmd.cached) /\ Truthy(prepare_patch_for_application(cmd.cached))
SuggestionResolves ==
    /\ Truthy(CommandFinding.suggestion)
    /\ Truthy(extract_patch(CommandFinding.suggestion))
    /\ Truthy(prepare_patch_for_application(
                  extract_patch(CommandFinding.suggestion)))
Contains(seq, x) == \E k \in 1..Len(seq) : seq[k] = x

\* C9: resolution order of apply.  A cached patch that is not empty and
\* passes the validator is the diff used, and nothing else is tried; the
\* suggestion is tried only without a usable cached patch; the assistant
\* runs only when neither resolved and the user answered y or yes.  The
\* patch tool runs only on a resolved diff, and no other step of an apply
\* command changes a status or the cursor.
C9_ResolutionOrder ==
    /\ [](cmd.name = "apply" =>
            /\ CachedUsable =>
                  /\ cmd.tried = <<"cached">>
                  /\ patch = prepare_patch_for_application(cmd.cached)
            /\ Contains(cmd.tried, "suggestion") => ~CachedUsable
            /\ (pc = "ai_apply" \/ Contains(cmd.tried, "ai")) =>
                  /\ ~CachedUsable
                  /\ ~SuggestionResolves
                  /\ cmd.gen \in {"y", "yes"}
            /\ (pc \in {"preview", "confirm"} \/ ApplyInvoked) =>
                  /\ Truthy(patch)
                  /\ cmd.tried # <<>>
                  /\ patch_source =
                        IF cmd.tried[Len(cmd.tried)] = "cached"
                        THEN CommandEntry.last_patch_source
                        ELSE cmd.tried[Len(cmd.tried)])
    /\ [][(cmd.name = "apply" /\ cmd'.name = "apply" /\ pc # "git_apply")
            => /\ Statuses' = Statuses
               /\ index' = index
               /\ state'.current_index = state.current_index
               /\ tree' = tree]_vars

\* C9 witness: the cached patch was unusable, the suggestion gave nothing,
\* the user asked for the assistant, and its diff awaits confirmation.
C9_Witness ==
    /\ pc = "confirm"
    /\ cmd.tried = <<"cached", "suggestion", "ai">>
    /\ cmd.gen = "yes"
    /\ patch_source = "ai"

\* C10: apply on a finding of lib/foo.go without a cached patch whose
\* suggestion is a fenced hunk without file headers resolves through the
\* suggestion: the diff gets the headers "--- a/lib/foo.go" and
\* "+++ b/lib/foo.go", is cached with provenance "suggestion" and is
\* offered for confirmation; the assistant is not asked for.
C10_SuggestionGetsHeaders ==
    (/\ cmd.name = "apply"
     /\ CommandFinding.file = TargetFile
     /\ CommandFinding.suggestion = BareDiffBlock
     /\ ~Truthy(cmd.cached)
     /\ pc \notin {"apply_sugg", "stopped"})
    => /\ cmd.tried = <<"suggestion">>
       /\ cmd.gen = ""
       /\ pc \notin {"gen_prompt", "ai_apply"}
       /\ Contains(patch, OldHeader)
       /\ Contains(patch, NewHeader)
       /\ Contains(patch, HunkHeader)
       /\ patch_source = "suggestion"
       /\ CommandEntry.last_patch = patch
       /\ CommandEntry.last_patch_source = "suggestion"

PatchToolRejected ==
    cmd.name = "apply" /\ cmd.git # <<>> /\ ~cmd.git[Len(cmd.git)].ok

\* C11: once the patch tool has rejected the patch of an apply command,
\* the entry of that finding caches no patch and no provenance.
C11_RejectedPatchDiscarded ==
    (PatchToolRejected /\ pc # "stopped")
    => /\ CommandEntry.last_patch = EmptyText
       /\ CommandEntry.last_patch_source = ""

\* C12: next (the empty input included) sets the status of the finding at
\* the cursor to acknowledged and leaves every other entry alone, advances
\* the cursor by one in the loop and in the state, and saves: back at the
\* prompt, or past the last finding, the store file holds that state.
C12_NextAcknowledgesAndAdvances ==
    /\ [][(pc = "prompt" /\ cmd'.name = "next") =>
            /\ state'.findings =
                  [id \in DOMAIN state.findings |->
                      IF id = CurrentId
                      THEN [state.findings[id] EXCEPT !.status = "acknowledged"]
                      ELSE state.findings[id]]
            /\ index' = index + 1
            /\ state'.current_index = index + 1
            /\ pc' = "save"]_vars
    /\ []((cmd.name = "next" /\ pc \in {"prompt", "exit"}) =>
            /\ CommandEntry.status = "acknowledged"
            /\ index = cmd.at + 1
            /\ state.current_index = index
            /\ files[StatePath] = JsonFile(state))

\* C12 witness: the report has one finding, the store was new, and next
\* has left it acknowledged with cursor 1, on disk as in memory.
C12_Witness ==
    /\ Len(findings) = 1
    /\ cmd.name = "next" /\ cmd.at = 0
    /\ pc = "exit"
    /\ index = 1
    /\ files[StatePath] = JsonFile(state)
    /\ files[StatePath].data.current_index = 1
    /\ files[StatePath].data.findings[findings[1].identifier]
          = [FreshEntry EXCEPT !.status = "acknowledged"]

\* C13: prev sets the cursor to max(0, cursor - 1) in the loop and in the
\* state, changes no entry, and saves: back at the prompt the store file
\* holds that state.
C13_PrevMovesBackOnly ==
    /\ [][(pc = "prompt" /\ cmd'.name = "prev") =>
            /\ state'.findings = state.findings
            /\ index' = Max(0, index - 1)
            /\ state'.current_index = Max(0, index - 1)
            /\ pc' = "save"]_vars
    /\ []((cmd.name = "prev" /\ pc = "prompt") =>
            /\ index = Max(0, cmd.at - 1)
            /\ state.current_index = index
            /\ files[StatePath] = JsonFile(state))

\* C13 witness: prev at the first finding, whose entry is no longer the
\* fresh one, has kept the cursor at 0.
C13_Witness ==
    /\ cmd.name = "prev" /\ cmd.at = 0
    /\ pc = "prompt"
    /\ index = 0
    /\ CommandEntry.status = "fixed"
    /\ Truthy(CommandEntry.last_patch)
    /\ files[StatePath] = JsonFile(state)

\* C14: after a fix in which the assistant returned output with a fenced
\* diff, the entry holds that output, provenance "ai" and a patch that
\* the normalizer accepts, namely the normalized form of the extracted
\* diff; the cursor is where it was.
C14_FixCachesNormalizedPatch ==
    (/\ cmd.name = "fix"
     /\ pc \notin {"ai_fix", "stopped"}
     /\ Truthy(cmd.output)
     /\ Truthy(extract_patch(cmd.output)))
    => /\ CommandEntry.last_ai_output = cmd.output
       /\ CommandEntry.last_patch_source = "ai"
       /\ Truthy(prepare_patch_for_application(CommandEntry.last_patch))
       /\ index = cmd.at

ResolvedAt(i) ==
    i < Len(findings) /\ IsResolved(state.findings[findings[i + 1].identifier].status)

\* C15: when a session starts prompting, the cursor is the stored cursor,
\* unless the finding there is acknowledged or fixed: then it is the
\* first pending finding.
C15_ResumeSkipsResolved ==
    (pc \in {"prompt", "exit"} /\ cmd.name = "")
    => index = IF ResolvedAt(state.current_index)
               THEN find_first_pending_index(findings, state)
               ELSE Min(state.current_index, Len(findings))

StatusAt(i) ==
    Get(Get(Get(state, "findings", EmptyDict),
            findings[i + 1].identifier, EmptyDict), "status", "pending")
PendingIndexes ==
    {i \in 0..(Len(findings) - 1) : StatusAt(i) \notin {"acknowledged", "fixed"}}

\* C16: find_first_pending_index returns the smallest index whose finding
\* is neither acknowledged nor fixed, a finding without an entry counting
\* as pending, and len(findings) exactly when there is no such index.
C16_FirstPendingIsSmallest ==
    pc = "returned_pending" =>
        /\ index \in 0..Len(findings)
        /\ (index = Len(findings)) <=> (PendingIndexes = {})
        /\ PendingIndexes # {} =>
              /\ index \in PendingIndexes
              /\ \A k \in PendingIndexes : index <= k

\* C16 witness: the first finding is acknowledged, the second has no
\* entry, and the scan returned the second.
C16_Witness ==
    /\ pc = "returned_pending"
    /\ Len(findings) = 3
    /\ "findings" \in DOMAIN state
    /\ findings[1].identifier \in DOMAIN state.findings
    /\ StatusAt(0) = "acknowledged"
    /\ findings[2].identifier \notin DOMAIN state.findings
    /\ index = 1

Rank(status) ==
    CASE status = "pending" -> 0
      [] status = "acknowledged" -> 1
      [] status = "fixed" -> 2

\* C17: while the report is the same, no step of a process and no restart
\* moves the status of a finding backwards in the order
\* pending < acknowledged < fixed.
C17_StatusNeverGoesBack ==
    /\ [][(pc # "stopped" /\ pc' # "stopped") =>
            \A id \in DOMAIN state.findings :
                Rank(state'.findings[id].status)
                    >= Rank(state.findings[id].status)]_vars
    /\ [][(pc = "stopped" /\ pc' = "save" /\ ~ReportChanged) =>
            \A id \in DOMAIN PriorEntriesOnDisk \cap DOMAIN state'.findings :
                Rank(state'.findings[id].status)
                    >= Rank(PriorEntriesOnDisk[id].status)]_vars

\* C18: when save_state fails within a command, the loop goes on: the
\* next thing the process does is prompt at the finding the command was
\* given at.
C18_SaveFailureKeepsLoop ==
    [][(pc = "raise" /\ cmd.name # "" /\ ret \notin {"loop_init", "done"}) =>
          /\ pc' = "prompt"
          /\ index' = cmd.at
          /\ findings' = findings]_vars

\* The findings section of the review text, line by line: the lines after
\* the first section heading, up to the next heading of that level.
SectionHeads == {i \in 1..Len(report) : IsSectionHeading(report[i])}
SectionFirst == CHOOSE i \in SectionHeads : \A k \in SectionHeads : i <= k
SectionLast ==
    LET ends == {k \in (SectionFirst + 1)..Len(report) :
                    StartsWith(report[k], "## ")}
    IN IF ends = {} THEN Len(report)
       ELSE (CHOOSE k \in ends : \A m \in ends : k <= m) - 1

\* The assessment headers inside the section, and the block of each: the
\* lines after it up to the next assessment header or the section's end.
HeaderIndexes ==
    IF SectionHeads = {} THEN {}
    ELSE {i \in (SectionFirst + 1)..SectionLast : IsAssessment(report[i])}
BlockLast(i) ==
    LET later == {k \in HeaderIndexes : k > i}
    IN IF later = {} THEN SectionLast
       ELSE (CHOOSE k \in later : \A m \in later : k <= m) - 1
BlockText(i) ==
    IF BlockLast(i) = i THEN EmptyText ELSE SubSeq(report, i + 1, BlockLast(i))

\* The grade written in a header, trimmed and in upper case.
WrittenGrade(i) == RStripLine(LStripLine(AfterColon(report[i])))
NormalizedGrade(i) == ToUpper(WrittenGrade(i))

RECURSIVE Ascending(_)
Ascending(indexes) ==
    IF indexes = {} THEN <<>>
    ELSE LET i == CHOOSE i \in indexes : \A k \in indexes : i <= k
         IN <<i>> \o Ascending(indexes \ {i})

\* Every block has a body: its header is followed by a line that is
\* neither an assessment header nor a heading.
BlocksHaveBodies ==
    \A i \in HeaderIndexes :
        /\ i < Len(report)
        /\ ~IsAssessment(report[i + 1])
        /\ ~StartsWith(report[i + 1], "## ")

\* Every grade is written in capitals.
GradesInCapitals ==
    \A i \in HeaderIndexes :
        \A k \in 1..Len(WrittenGrade(i)) : IsUpper(WrittenGrade(i)[k])

\* C19: grade matching is case-insensitive.  For a review whose blocks all
\* have bodies, the findings are, in order, the blocks of the section
\* whose grade, trimmed and without regard to case, is BAD.
C19_GradeIgnoresCase ==
    (pc = "parsed" /\ BlocksHaveBodies) =>
        LET retained == Ascending({i \in HeaderIndexes :
                                     NormalizedGrade(i) = <<"B", "A", "D">>})
        IN /\ Len(findings) = Len(retained)
           /\ \A k \in 1..Len(retained) :
                 findings[k].raw_block[1] = report[retained[k]]

\* C20: for a review whose grades are written in capitals, the findings
\* are, in document order, one for each BAD header inside the section,
\* each with the fields of its own block only; there is none when the
\* section heading is absent.
C20_OneFindingPerBadHeader ==
    (pc = "parsed" /\ GradesInCapitals) =>
        LET bad == Ascending({i \in HeaderIndexes :
                                WrittenGrade(i) = <<"B", "A", "D">>})
        IN /\ Len(findings) = Len(bad)
           /\ \A k \in 1..Len(bad) :
                 LET fields == parse_fields(BlockText(bad[k]))
                 IN /\ findings[k].raw_block[1] = report[bad[k]]
                    /\ findings[k].title = Get(fields, "title", EmptyText)
                    /\ findings[k].file = Get(fields, "file", EmptyText)
                    /\ findings[k].suggestion
                          = Get(fields, "suggestion", EmptyText)

FieldNames ==
    {"title", "file", "lines", "function", "details", "reasoning",
     "suggestion"}

\* A line "**Label**..." and whether its label is in the alias table.
IsLabelLine(line) == Len(line) >= 3 /\ line[1] = "**" /\ line[3] = "**"
IsKnownLabelLine(line) ==
    IsLabelLine(line) /\ canonicalize_label(line[2]) # ""

BadHeaders ==
    Ascending({i \in HeaderIndexes : WrittenGrade(i) = <<"B", "A", "D">>})

\* C21: for a review whose grades are written in capitals, no BAD block
\* is dropped, and the finding of a BAD block without a field line (its
\* header directly followed by the next header or by the section's end
\* included) has empty strings in all its fields.
C21_EmptyBlockYieldsEmptyFinding ==
    (pc = "parsed" /\ GradesInCapitals) =>
        /\ Len(findings) = Len(BadHeaders)
        /\ \A k \in 1..Len(BadHeaders) :
              (\A i \in (BadHeaders[k] + 1)..BlockLast(BadHeaders[k]) :
                    ~IsKnownLabelLine(report[i]))
              => \A name \in FieldNames : findings[k][name] = EmptyText

\* The fields of a block as they are when a line with an unknown label
\* closes the open field and is dropped, like a rule line.
FieldsUnknownDropped(block_body) ==
    parse_fields([i \in 1..Len(block_body) |->
                    IF IsLabelLine(block_body[i])
                          /\ ~IsKnownLabelLine(block_body[i])
                    THEN <<"---">> ELSE block_body[i]])

\* C22: a field line with an unknown label is dropped together with its
\* continuation lines: for a review whose blocks all have bodies and
\* whose grades are in capitals, the fields of each finding are those of
\* its block with the unknown-label lines closing the open field.
C22_UnknownLabelDropped ==
    (pc = "parsed" /\ GradesInCapitals /\ BlocksHaveBodies) =>
        /\ Len(findings) = Len(BadHeaders)
        /\ \A k \in 1..Len(BadHeaders) :
              LET fields == FieldsUnknownDropped(BlockText(BadHeaders[k]))
              IN \A name \in FieldNames :
                    findings[k][name] = Get(fields, name, EmptyText)

\* The header line of a block and its body, trimmed.
OwnBlock(i) == StripText(SubSeq(report, i, BlockLast(i)))

RECURSIVE FirstAcceptedBlock(_, _)
FirstAcceptedBlock(text, i) ==
    IF i > Len(text) THEN None
    ELSE IF text[i] = <<>> \/ text[i][1] # Fence
    THEN FirstAcceptedBlock(text, i + 1)
    ELSE LET closers == {j \in (i + 1)..Len(text) : text[j] = <<Fence>>}
         IN IF closers = {} THEN None
            ELSE LET j == CHOOSE j \in closers : \A k \in closers : j <= k
                 IN IF text[i] = <<Fence>> \/ text[i][Len(text[i])] \in FenceTags
                    THEN LET interior == AddNewline(SubSeq(text, i + 1, j - 1))
                         IN IF EndsWithNewline(interior) THEN interior
                            ELSE AddNewline(interior)
                    ELSE FirstAcceptedBlock(text, j + 1)

\* C24: extract_patch returns the interior of the first fenced block that
\* is tagged diff, patch or suggestion or is untagged, with every line as
\* written and a final newline; it takes nothing from a block with another
\* tag, and returns none when the text has no such block.
C24_ExtractsFirstAcceptedBlockVerbatim ==
    pc = "returned_extract" => patch = FirstAcceptedBlock(cmd.output, 1)

\* The normalizer's arguments and what they say: the diff, whether a
\* target path is known (the file is neither absent nor blank), and
\* which of the two file headers the diff has.
GivenDiff == findings[1].patch
PathKnown == findings[1].file \notin {None, <<" ">>}
HasHunk == HasLineWith(GivenDiff, "@@")
HasOld == HasLineWith(GivenDiff, "--- ")
HasNew == HasLineWith(GivenDiff, "+++ ")

\* C25: a diff with a hunk header and neither file header, normalized
\* for a known target path, has the line "--- a/P" and after it the line
\* "+++ b/P" exactly once, and they stand immediately before the first
\* hunk header.
C25_HeadersBeforeFirstHunk ==
    (pc = "returned_prepare" /\ HasHunk /\ ~HasOld /\ ~HasNew /\ PathKnown)
    => /\ patch # None
       /\ LET olds == {i \in 1..Len(patch) : StartsWith(patch[i], "--- ")}
              news == {i \in 1..Len(patch) : StartsWith(patch[i], "+++ ")}
          IN /\ Cardinality(olds) = 1
             /\ Cardinality(news) = 1
             /\ \A i \in olds :
                   /\ patch[i] = OldLine(TargetPath)
                   /\ i + 2 <= Len(patch)
                   /\ patch[i + 1] = NewLine(TargetPath)
                   /\ StartsWith(patch[i + 2], "@@")
                   /\ \A k \in 1..i : ~StartsWith(patch[k], "@@")

\* C25 witness: a hunk that follows a line of prose, for a path written
\* with backslashes; the headers stand between the prose and the hunk.
C25_Witness ==
    /\ pc = "returned_prepare"
    /\ GivenDiff = <<Prose, HunkHeader, Addition("b") \o <<CR>> >>
    /\ findings[1].file # TargetPath
    /\ patch = << DiffLine(TargetPath), Prose, OldLine(TargetPath),
                  NewLine(TargetPath), HunkHeader, Addition("b"), <<>> >>

\* C26: the normalizer returns none exactly when the diff is empty, has
\* no hunk header, has exactly one of the two file headers (whatever the
\* target path), or has neither and no target path is known.
C26_RejectsExactlyTheMalformed ==
    pc = "returned_prepare" =>
        ((patch = None) <=>
            \/ \A i \in 1..Len(GivenDiff) : GivenDiff[i] = <<>>
            \/ ~HasHunk
            \/ HasOld /\ ~HasNew
            \/ HasNew /\ ~HasOld
            \/ ~HasOld /\ ~HasNew /\ ~PathKnown)

\* C26 witness: a diff with a hunk and the old header only is rejected
\* though the target path is known.
C26_Witness ==
    /\ pc = "returned_prepare"
    /\ HasHunk /\ HasOld /\ ~HasNew /\ PathKnown
    /\ patch = None

\* A header of a pure addition or deletion.
PointsAtDevNull(line) ==
    line \in {DevNullOld, <<"+++ ", "/dev/null">>}

\* C27: in a diff normalized for a known target path P every file
\* reference names P: there is a "diff --git a/P b/P" line and no other
\* "diff --git" line, every file header reads "--- a/P" or "+++ b/P"
\* unless it points at /dev/null, and the headers pointing at /dev/null
\* are the given ones.
C27_EveryReferenceNamesTarget ==
    (pc = "returned_prepare" /\ PathKnown /\ patch # None) =>
        /\ \E i \in 1..Len(patch) : patch[i] = DiffLine(TargetPath)
        /\ \A i \in 1..Len(patch) :
              /\ StartsWith(patch[i], "diff --git ")
                    => patch[i] = DiffLine(TargetPath)
              /\ StartsWith(patch[i], "--- ")
                    => patch[i] \in {OldLine(TargetPath), DevNullOld}
              /\ StartsWith(patch[i], "+++ ")
                    => patch[i] \in {NewLine(TargetPath),
                                     <<"+++ ", "/dev/null">>}
        /\ SelectSeq(patch, PointsAtDevNull)
              = SelectSeq(GivenDiff, PointsAtDevNull)

\* C28: when run_ai_fix gives nothing during fix (no assistant on the
\* PATH, it cannot be executed, or it prints nothing), the state in
\* memory, and so the finding's status, last_ai_output, last_patch and
\* last_patch_source, and the cursor are as before, the state is saved
\* and the loop asks for the next command at the same finding.
C28_FixWithoutAssistantChangesNothing ==
    [][(pc = "ai_fix" /\ pc' = "save" /\ cmd'.output = None)
        => /\ state' = state
           /\ index' = index
           /\ findings' = findings
           /\ ret' = "prompt"]_vars

\* C28 witness: fix has found no assistant for a finding whose entry
\* holds a patch cached by an earlier fix; the loop is back at the prompt
\* at that finding, the cached patch is still in the entry and in the
\* store file.
C28_Witness ==
    /\ pc = "prompt"
    /\ cmd.name = "fix"
    /\ cmd.output = None
    /\ index = cmd.at
    /\ CurrentEntry.last_patch_source = "ai"
    /\ Truthy(CurrentEntry.last_patch)
    /\ files[StatePath] = JsonFile(state)

\* C30: while a process runs on a reconciled state, the loop's cursor
\* and the current_index of the state are in 0..len(findings); wherever
\* the loop waits for a command or within one, the cursor is below
\* len(findings); and the current_index in the store file is in that
\* range wherever the process waits and when the loop has been left.
C30_CursorInRange ==
    (pc # "stopped" /\ "current_index" \in DOMAIN state) =>
        /\ index \in 0..Len(findings)
        /\ state.current_index \in 0..Len(findings)
        /\ (pc \in SuspensionPoints \/ ret = "prompt")
              => index < Len(findings)
        /\ (pc \in SuspensionPoints \cup {"done"})
              => /\ files[StatePath].kind = "json"
                 /\ files[StatePath].data.current_index
                       \in 0..Len(findings)

\* C30 witness: the last finding has been acknowledged with next; the
\* loop is left with the cursor at len(findings), which is what the
\* store file holds.
C30_Witness ==
    /\ pc = "done"
    /\ cmd.name = "next"
    /\ Len(findings) > 1
    /\ index = Len(findings)
    /\ state.current_index = Len(findings)
    /\ files[StatePath] = JsonFile(state)

\* C29: with two instances on one store every save is an atomic
\* replacement: the store file is absent or holds the complete state of
\* one instance, never an unfinished or a mixed text; each rename leaves
\* in the store file the state of the instance that renames; and no save
\* fails.
C29_ConcurrentSavesAtomic ==
    /\ [](/\ files[StatePath].kind \in {"absent", "json"}
          /\ \A p \in Instances : pc[p] # "raise")
    /\ [][\A p \in Instances :
            (pc[p] = "save_replace" /\ pc'[p] # "save_replace")
                => files'[StatePath] = JsonFile(state[p])]_vars

\* The findings of the report a stored state was written for.
FindingsFor(st) ==
    LET r == CHOOSE r \in 1..Len(Reports) :
                Reports[r].review_hash = st.review_hash
    IN Reports[r].findings

\* Every finding below the cursor of st is acknowledged or fixed.
ResolvedBelowCursor(st, fs) ==
    \A i \in 1..Min(st.current_index, Len(fs)) :
        st.findings[fs[i].identifier].status \in {"acknowledged", "fixed"}

\* C31: in the state of a running process and in the store file, every
\* finding at an index below the stored cursor is acknowledged or fixed;
\* and when the loop is left with the cursor at len(findings),
\* find_first_pending_index returns len(findings).
C31_ResolvedBelowCursor ==
    /\ (pc # "stopped" /\ "current_index" \in DOMAIN state)
          => /\ ResolvedBelowCursor(state, findings)
             /\ \A i \in 1..Min(index, Len(findings)) :
                   IsResolved(state.findings[findings[i].identifier].status)
             /\ (pc \in {"exit", "done"} /\ index = Len(findings))
                   => find_first_pending_index(findings, state)
                         = Len(findings)
    /\ files[StatePath].kind = "json"
          => ResolvedBelowCursor(files[StatePath].data,
                                 FindingsFor(files[StatePath].data))

\* C31 witness: the first finding was fixed by apply and the second
\* acknowledged with next; the loop is left with the cursor at
\* len(findings), which is what the store holds.
C31_Witness ==
    /\ pc = "done"
    /\ cmd.name = "next"
    /\ Len(findings) > 1
    /\ index = Len(findings)
    /\ files[StatePath] = JsonFile(state)
    /\ state.current_index = Len(findings)
    /\ state.findings[findings[1].identifier].status = "fixed"
    /\ state.findings[findings[2].identifier].status = "acknowledged"
    /\ find_first_pending_index(findings, state) = Len(findings)

\* An entry of the store as the spec describes it.
WellFormedEntry(entry) ==
    /\ DOMAIN entry
          = {"status", "last_ai_output", "last_patch", "last_patch_source"}
    /\ entry.status \in {"pending", "acknowledged", "fixed"}
    /\ entry.last_patch_source \in {"", "ai", "suggestion"}
    /\ (entry.last_patch = EmptyText) <=> (entry.last_patch_source = "")

\* C32: in the state of a running process and in the store file, every
\* entry has a status among pending, acknowledged and fixed and a patch
\* source among "", "ai" and "suggestion", and its cached patch is empty
\* exactly when its patch source is.
C32_EntriesWellFormed ==
    /\ (pc # "stopped" /\ "findings" \in DOMAIN state)
          => \A id \in DOMAIN state.findings :
                WellFormedEntry(state.findings[id])
    /\ files[StatePath].kind = "json"
          => \A id \in DOMAIN files[StatePath].data.findings :
                WellFormedEntry(files[StatePath].data.findings[id])

\* C32 witness: apply has found the patch cached by fix unusable and
\* discarded it; the entry has neither patch nor source, in memory and
\* in the store, and the loop is back at the prompt.
C32_Witness ==
    /\ pc = "prompt"
    /\ cmd.name = "apply"
    /\ Truthy(cmd.cached)
    /\ CommandEntry.last_patch = EmptyText
    /\ CommandEntry.last_patch_source = ""
    /\ Truthy(CommandEntry.last_ai_output)
    /\ files[StatePath] = JsonFile(state)

\* C33: open, help and an unrecognised command leave the state in
\* memory, the cursor and the store file as they are and the loop at the
\* prompt; quit leaves the loop with state and cursor as they are, the
\* final save changes nothing but current_index, and what is stored
\* after quit is the cursor the loop had when quit was given.
C33_PassiveCommandsChangeNothing ==
    /\ [][(pc = "prompt" /\ cmd' # cmd /\ pc' # "stopped"
              /\ cmd'.name \in {"open", "help", "other"})
            => /\ state' = state
               /\ index' = index
               /\ files' = files
               /\ pc' = "prompt"]_vars
    /\ [][(pc = "prompt" /\ cmd' # cmd /\ cmd'.name = "quit")
            => /\ state' = state
               /\ index' = index
               /\ files' = files
               /\ pc' = "exit"]_vars
    /\ [][(pc = "exit" /\ pc' = "save" /\ cmd.name = "quit")
            => /\ state'.findings = state.findings
               /\ state'.current_index = cmd.at
               /\ index' = cmd.at]_vars
    /\ []((pc = "done" /\ cmd.name = "quit")
            => /\ files[StatePath] = JsonFile(state)
               /\ state.current_index = cmd.at)

\* C33 witness: after next, an unrecognised command and quit at the
\* second finding the process has saved: the store holds the cursor of
\* the second finding and the first finding acknowledged.
C33_Witness ==
    /\ pc = "done"
    /\ cmd.name = "quit"
    /\ cmd.at = 1
    /\ index = 1
    /\ files[StatePath] = JsonFile(state)
    /\ state.current_index = 1
    /\ state.findings[findings[1].identifier].status = "acknowledged"
    /\ state.findings[findings[2].identifier].status = "pending"

\* The lines of a diff from its first hunk header on.
FromFirstHunk(diff) == SubSeq(diff, first_hunk(diff), Len(diff))

\* C34: the normalizer leaves the hunks as they are: in every diff it
\* returns, the lines from the first hunk header to the end are those of
\* the given diff (its line ends made uniform and its outer blank lines
\* trimmed), lines of a hunk that begin with "--- " or "+++ " included.
C34_HunksUnchanged ==
    (pc = "returned_prepare" /\ patch # None) =>
        LET given == StripNewlines([i \in 1..Len(GivenDiff) |->
                                      DropCR(GivenDiff[i])])
        IN FromFirstHunk(patch) = AddNewline(FromFirstHunk(given))

\* C35, first half: a diff the normalizer returned for a path is returned
\* unchanged when it is normalized again for the same path.
NormalizeTwiceSame ==
    (pc = "returned_prepare" /\ patch # None) =>
        postprocess_prepare_patch_for_application(patch, findings[1].file)
            = patch

\* C35: normalization is idempotent, and the validator of the workflow
\* accepts every diff the normalizer returned.
C35_NormalizeIdempotent ==
    (pc = "returned_prepare" /\ patch # None) =>
        /\ postprocess_prepare_patch_for_application(patch, findings[1].file)
              = patch
        /\ prepare_patch_for_application(patch) # None

\* The interior of the fenced block that stands right under the
\* Suggestion label of a block, no text when there is none.
FencedSuggestion(raw_block) ==
    LET labels == {i \in 1..(Len(raw_block) - 1) :
                     /\ Len(raw_block[i]) >= 3
                     /\ raw_block[i][1] = "**"
                     /\ canonicalize_label(raw_block[i][2]) = "suggestion"
                     /\ raw_block[i][3] = "**"
                     /\ IsOpener(raw_block[i + 1])}
        i == CHOOSE i \in labels : \A m \in labels : i <= m
        closers == {j \in (i + 2)..Len(raw_block) : HasFence(raw_block[j])}
        j == CHOOSE j \in closers : \A m \in closers : j <= m
    IN IF labels = {} THEN <<>>
       ELSE IF closers = {} THEN <<>>
       ELSE SubSeq(raw_block, i + 2, j - 1)

\* C36: when the fenced block under a block's Suggestion label holds both
\* file headers and a hunk, extract_patch on the parsed suggestion returns
\* the lines of that block, headers and hunk included.
C36_FencedDiffPreserved ==
    (pc # "stopped") =>
        \A n \in 1..Len(findings) :
            LET inner == FencedSuggestion(findings[n].raw_block)
            IN (/\ HasLineWith(inner, "--- ")
                /\ HasLineWith(inner, "+++ ")
                /\ HasLineWith(inner, "@@")) =>
                   extract_patch(findings[n].suggestion) = AddNewline(inner)

\* A suggestion that holds a fenced diff the normalizer takes for the
\* finding's file and the dry run accepts on the tree.
HoldsAcceptedDiff(finding) ==
    LET p == extract_patch(StripText(finding.suggestion))
    IN /\ Truthy(p)
       /\ postprocess_prepare_patch_for_application(p, PathOf(finding.file))
             # None
       /\ run_git_apply_check(tree, p)

\* C37: after a run of the postprocess step every BAD finding of the
\* rewritten report that has a suggestion has for it either a fenced diff
\* that normalization and the dry run accept, or the marker.
C37_SuggestionsDiffOrMarker ==
    (pc # "stopped") =>
        LET after == parse_bad_findings(report)
        IN \A n \in 1..Len(after) :
              \/ after[n].suggestion = EmptyText
              \/ StripText(after[n].suggestion) = << <<NoPatchMarker>> >>
              \/ HoldsAcceptedDiff(after[n])

\* C38: a second run of the postprocess step, on the report the first run
\* left and with the same working tree, leaves the report as it is.
C38_SecondRunChangesNothing ==
    [][pc = "ran_once" => report' = report]_vars

\* C39: in the queue of every subscriber the status payload comes first,
\* and no payload carries a state of the file older than the state of a
\* payload before it.
C39_StatusFirstAndInOrder ==
    \A s \in Subscribers :
        LET q == findings[s]
        IN /\ (q # <<>> => q[1].type = "status")
           /\ \A i \in 1..Len(q) : \A j \in i..Len(q) :
                  q[i].mtime_ns <= q[j].mtime_ns

====
